---- MODULE Spec2Model ----
(***************************************************************************)
(* MDAS batch uploader v1.4.0 (src/scripts/mdas-batch-uploader-v1.4.0.py): *)
(* the instance lock, the file-claim protocol and the per-file pipeline of *)
(* upload_batch, run by several uploader processes over one base folder.   *)
(*                                                                         *)
(* Each uploader process is one instance.  A step of the model is one      *)
(* filesystem or network operation of one instance; operations of          *)
(* different instances interleave freely.  Renames follow POSIX: a rename  *)
(* fails when its source is missing and replaces an existing destination.  *)
(***************************************************************************)
EXTENDS Integers, Sequences, FiniteSets, TLC

\* ------------------------------------------------------------------------
\* Program constants
\* ------------------------------------------------------------------------
LOCK_STALE_MINUTES == 30

MAX_RETRIES == 3

MAX_WAKEUP_ATTEMPTS == 30

CHUNK_SIZE == 25 * 1024 * 1024

UPLOADING_EXTENSION == ".uploading"

\* ------------------------------------------------------------------------
\* Bounds of the model
\* ------------------------------------------------------------------------
\* Wall-clock time advances in ticks of TickMinutes minutes, MaxTicks times.
TickMinutes == 15
MaxTicks == 3

\* New files dropped into the inbox while instances run.
MaxArrivals == 1

\* The files one upload_batch call lists, and the status polls in a row
\* that do not report the remote as ready.
MaxFiles == 3
MaxWaits == 2

\* ------------------------------------------------------------------------
\* Instances: uploader processes (socket.gethostname(), os.getpid()).  p1
\* and p2 run on hostA; p3 runs on hostA too, or on hostB, where process
\* ids are unrelated to hostA's, so that p3 may carry p1's pid.
\* ------------------------------------------------------------------------
Inst == {"p1", "p2", "p3"}

Layouts ==
    { [p1 |-> [host |-> "hostA", pid |-> 1], p2 |-> [host |-> "hostA", pid |-> 2],
       p3 |-> [host |-> "hostA", pid |-> 3]],
      [p1 |-> [host |-> "hostA", pid |-> 1], p2 |-> [host |-> "hostA", pid |-> 2],
       p3 |-> [host |-> "hostB", pid |-> 1]] }

NoToken == [pid |-> 0, hostname |-> "none", started_at |-> 0, timestamp |-> 0, writer |-> "none"]

NoErr == [kind |-> "none", pid |-> 0, host |-> "none", started |-> 0]

\* _last_ping_data before any ping answered with 200.
NoPing == [serviceStatus |-> "none", keyStatus |-> "none", hostApproval |-> "none"]

\* No wake-up ping sent yet.
NoAnswer == [code |-> -1, data |-> NoPing]

\* No transfer call and no per-file loop is looked at.
NoTransfer ==
    [program |-> "none", file_size |-> 0, at |-> "none", tries |-> 0,
     chunk |-> 0, requests |-> <<>>, sleeps |-> <<>>]

NoBatch ==
    [program |-> "none", batch_size |-> 0, total |-> 0, i |-> 0, at |-> "none",
     waits |-> 0, successful |-> 0, failed |-> 0, log |-> <<>>]

NoObs == [probed |-> FALSE, ownerAlive |-> FALSE]

\* ------------------------------------------------------------------------
\* File names and folders.  A name is the sequence of its parts, such as
\* <<"dup", " (1)", ".txt", ".uploading">>; a part that starts with a dot is
\* an extension.  A folder maps the names present in it to the identity of
\* each file's content.
\* ------------------------------------------------------------------------
NoPath == <<>>

EmptyDir == [n \in {} |-> 0]

IsExtension(part) == part \in {".txt", ".bin", UPLOADING_EXTENSION}

\* str.endswith(UPLOADING_EXTENSION)
EndsWithUploading(name) ==
    Len(name) > 0 /\ name[Len(name)] = UPLOADING_EXTENSION

\* str.startswith('.'): a hidden entry
IsHidden(name) == Len(name) > 0 /\ IsExtension(name[1])

\* _claim_file: file_path.with_suffix(file_path.suffix + UPLOADING_EXTENSION)
ClaimedPath(name) == Append(name, UPLOADING_EXTENSION)

\* _unclaim_file: claimed_path.name.replace(UPLOADING_EXTENSION, '')
UnclaimedName(name) == SelectSeq(name, LAMBDA part : part # UPLOADING_EXTENSION)

\* filename[:-len(UPLOADING_EXTENSION)] when the name ends with it
StripUploading(name) ==
    IF EndsWithUploading(name) THEN SubSeq(name, 1, Len(name) - 1) ELSE name

\* Path(filename).suffix and Path(filename).stem
PathSuffix(name) ==
    IF Len(name) > 1 /\ IsExtension(name[Len(name)])
    THEN <<name[Len(name)]>> ELSE <<>>

PathStem(name) == SubSeq(name, 1, Len(name) - Len(PathSuffix(name)))

\* f"{name_stem} ({counter}){name_suffix}"
Numbered(name, counter) ==
    PathStem(name) \o <<" (" \o ToString(counter) \o ")">> \o PathSuffix(name)

Exists(dir, name) == name \in DOMAIN dir

\* os.rename / Path.rename inside one folder: the destination is replaced.
Renamed(dir, src, dst) ==
    [n \in (DOMAIN dir \ {src}) \cup {dst} |-> IF n = dst THEN dir[src] ELSE dir[n]]

Removed(dir, name) == [n \in DOMAIN dir \ {name} |-> dir[n]]

Put(dir, name, content) ==
    [n \in DOMAIN dir \cup {name} |-> IF n = name THEN content ELSE dir[n]]

\* The run result upload_batch builds and returns.
NoResults == [successful |-> 0, failed |-> 0, skipped |-> 0, files |-> <<>>, error |-> "none"]

VARIABLES
    proc,       \* host and pid of each instance, fixed for the run
    now,        \* wall clock, in ticks
    lockFile,   \* logs/uploader.lock: NoToken when the file is absent
    pc,         \* position of each instance in its run
    acquired,   \* InstanceLock.acquired of each instance
    lockErr,    \* the error acquire returned to each instance (NoErr: none)
    via,        \* how each instance passed acquire's checks: free, stale, dead
    deleted,    \* the token each instance's release unlinked (NoToken: none)
    obs,        \* what acquire met: whether it probed the owner's pid, and
                \* whether the token's writer was alive at that moment
    inbox,      \* the inbox folder
    processed,  \* the processed folder
    files,      \* the listed files each instance has still to handle
    listed,     \* whether each instance has listed the inbox
    claimed,    \* the claimed path each instance works on (NoPath: none)
    attempt,    \* the number of the transfer attempt of each instance
    response,   \* the status code each instance's transfer attempt met last
                \* (0: none, or no answer at all)
    dest,       \* the destination each instance chose in processed
    results,    \* the run result of each instance
    sent,       \* the content each instance's last acknowledged attempt sent
    arrivals,   \* how many new files were dropped into the inbox
    answer,     \* what the latest wake-up ping of each instance met
    pings,      \* the wake-up pings each instance has sent
    lastPing,   \* _last_ping_data of each instance (NoPing: not set)
    xfer,       \* one call of the transfer function of either program: its
                \* position, and the requests and sleeps it made
    batch       \* the per-file loop of upload_batch of either program, file
                \* by file: its position and the requests and sleeps it made

lockObs == <<proc, via, deleted, obs>>

lockVars == <<proc, now, lockFile, acquired, lockErr, via, deleted, obs>>

dirVars == <<inbox, processed, arrivals>>

runVars == <<files, listed, claimed, attempt, response, dest, results, sent>>

wakeVars == <<answer, pings, lastPing>>

planVars == <<xfer, batch>>

vars == <<proc, now, lockFile, pc, acquired, lockErr, via, deleted, obs,
          inbox, processed, files, listed, claimed, attempt, response, dest,
          results, sent, answer, pings, lastPing, xfer, batch,
          arrivals>>

HostOf(i) == proc[i].host

PidOf(i) == proc[i].pid

\* A process exists on its host from its start until it exits or is killed.
ProcAlive(i) == pc[i] \notin {"done", "killed"}

\* ------------------------------------------------------------------------
\* InstanceLock
\* ------------------------------------------------------------------------
\* _write_lock_info: the token a process writes (writer is not on disk: it
\* records which instance wrote the token).
LockInfo(i) ==
    [pid |-> PidOf(i), hostname |-> HostOf(i), started_at |-> now,
     timestamp |-> now, writer |-> i]

\* _is_lock_stale: age in minutes strictly above the threshold.
IsLockStale(lock_info) ==
    (now - lock_info.timestamp) * TickMinutes > LOCK_STALE_MINUTES

\* Mutant of IsProcessRunning: the probe's fallback answer for every pid.
IsProcessRunning_AssumeRunning(host, pid) == TRUE

\* Mutant of IsProcessRunning: the probe finds no process, whatever the pid.
IsProcessRunning_AssumeDead(host, pid) == FALSE

\* _is_process_running: os.kill(pid, 0) on the caller's host.
IsProcessRunning(host, pid) ==
    \E j \in Inst : HostOf(j) = host /\ PidOf(j) = pid /\ ProcAlive(j)

\* Mutant of AcquireDecision: the owner is probed before the age is looked at.
AcquireDecision_LiveFirst(i, existing_lock) ==
    IF existing_lock = NoToken THEN "free"
    ELSE IF existing_lock.hostname = proc[i].host
         THEN IF ~(\E j \in Inst : proc[j].host = proc[i].host
                       /\ proc[j].pid = existing_lock.pid /\ ProcAlive(j))
              THEN "dead"
              ELSE IF IsLockStale(existing_lock) THEN "stale" ELSE "running"
    ELSE IF IsLockStale(existing_lock) THEN "stale"
    ELSE "running_on"

\* Mutant of AcquireDecision: the pid of a token of another host is probed
\* on the local host.
AcquireDecision_ProbeRemote(i, existing_lock) ==
    IF existing_lock = NoToken THEN "free"
    ELSE IF IsLockStale(existing_lock) THEN "stale"
    ELSE IF ~(\E j \in Inst : proc[j].host = proc[i].host
                  /\ proc[j].pid = existing_lock.pid /\ ProcAlive(j))
         THEN "dead" ELSE "running"

\* The decision of acquire on the token it read (lines 145-168):
\* "free", "stale", "dead" lead to the write, the others return an error.
AcquireDecision(i, existing_lock) ==
    IF existing_lock = NoToken THEN "free"
    ELSE IF IsLockStale(existing_lock) THEN "stale"
    ELSE IF existing_lock.hostname = HostOf(i)
         THEN IF ~IsProcessRunning(HostOf(i), existing_lock.pid)
              THEN "dead" ELSE "running"
    ELSE "running_on"

AcquireError(kind, existing_lock) ==
    [kind |-> kind, pid |-> existing_lock.pid,
     host |-> IF kind = "running_on" THEN existing_lock.hostname ELSE "none",
     started |-> existing_lock.started_at]

\* Mutant of AcquireRead: the caller goes on to list the inbox after a
\* failed acquire.
AcquireRead_IgnoreConflict(i) ==
    /\ pc[i] = "start"
    /\ LET d == AcquireDecision(i, lockFile) IN
         IF d \in {"free", "stale", "dead"}
         THEN /\ pc' = [pc EXCEPT ![i] = "acq_write"]
              /\ via' = [via EXCEPT ![i] = d]
              /\ UNCHANGED <<lockErr, results>>
         ELSE /\ pc' = [pc EXCEPT ![i] = "scan"]
              /\ lockErr' = [lockErr EXCEPT ![i] = AcquireError(d, lockFile)]
              /\ results' = [results EXCEPT ![i].error = "Lock conflict"]
              /\ via' = via
    /\ obs' = [obs EXCEPT ![i] =
                 [probed |-> AcquireDecision(i, lockFile) \in {"dead", "running"},
                 ownerAlive |-> lockFile # NoToken /\ ProcAlive(lockFile.writer)]]
    /\ UNCHANGED <<proc, now, lockFile, acquired, deleted, dirVars>>
    /\ UNCHANGED <<files, listed, claimed, attempt, response, dest, sent>>
    /\ UNCHANGED wakeVars
    /\ UNCHANGED planVars

\* acquire, up to its write: read the token and decide.  A failed acquire
\* makes _acquire_instance_lock return False and upload_batch return the
\* lock-conflict result; the process exits without an exit-time release.
AcquireRead(i) ==
    /\ pc[i] = "start"
    /\ LET d == AcquireDecision(i, lockFile) IN
         IF d \in {"free", "stale", "dead"}
         THEN /\ pc' = [pc EXCEPT ![i] = "acq_write"]
              /\ via' = [via EXCEPT ![i] = d]
              /\ UNCHANGED <<lockErr, results>>
         ELSE /\ pc' = [pc EXCEPT ![i] = "done"]
              /\ lockErr' = [lockErr EXCEPT ![i] = AcquireError(d, lockFile)]
              /\ results' = [results EXCEPT ![i].error = "Lock conflict"]
              /\ via' = via
    /\ obs' = [obs EXCEPT ![i] =
                 [probed |-> AcquireDecision(i, lockFile) \in {"dead", "running"},
                 ownerAlive |-> lockFile # NoToken /\ ProcAlive(lockFile.writer)]]
    /\ UNCHANGED <<proc, now, lockFile, acquired, deleted, dirVars>>
    /\ UNCHANGED <<files, listed, claimed, attempt, response, dest, sent>>
    /\ UNCHANGED wakeVars
    /\ UNCHANGED planVars

\* acquire, its write (lines 170-174): the token file is replaced, whatever
\* it holds by now.  The write goes to the logs folder, in which
\* _setup_logging has opened the log file for writing just before, so the
\* IOError branch (lines 175-176) is not taken.
AcquireWrite(i) ==
    /\ pc[i] = "acq_write"
    /\ lockFile' = LockInfo(i)
    /\ acquired' = [acquired EXCEPT ![i] = TRUE]
    /\ pc' = [pc EXCEPT ![i] = "scan"]
    /\ UNCHANGED <<proc, now, lockErr, via, deleted, obs, dirVars, runVars>>
    /\ UNCHANGED wakeVars
    /\ UNCHANGED planVars

\* The run between the lock and the exit, taken as one step.
RunBody(i) ==
    /\ pc[i] = "scan"
    /\ pc' = [pc EXCEPT ![i] = "release"]
    /\ UNCHANGED <<now, lockFile, acquired, lockErr, lockObs, dirVars, runVars>>
    /\ UNCHANGED wakeVars
    /\ UNCHANGED planVars

\* Mutant of ReleaseRead: the release leaves the token where it is.
ReleaseRead_KeepsToken(i) ==
    /\ pc[i] = "release"
    /\ pc' = [pc EXCEPT ![i] = "done"]
    /\ UNCHANGED <<now, lockFile, acquired, lockErr, lockObs, dirVars, runVars>>
    /\ UNCHANGED wakeVars
    /\ UNCHANGED planVars

\* release, its test (lines 180-184): the token is read and compared with
\* the caller's pid.
ReleaseRead(i) ==
    /\ pc[i] = "release"
    /\ pc' = [pc EXCEPT ![i] =
                IF acquired[i] /\ lockFile # NoToken /\ lockFile.pid = PidOf(i)
                THEN "rel_unlink" ELSE "done"]
    /\ UNCHANGED <<now, lockFile, acquired, lockErr, lockObs, dirVars, runVars>>
    /\ UNCHANGED wakeVars
    /\ UNCHANGED planVars

\* release, its unlink (lines 185-188): removes the token file as it is by
\* now; a missing file raises and is passed over.
ReleaseUnlink(i) ==
    /\ pc[i] = "rel_unlink"
    /\ IF lockFile # NoToken
       THEN /\ lockFile' = NoToken
            /\ acquired' = [acquired EXCEPT ![i] = FALSE]
            /\ deleted' = [deleted EXCEPT ![i] = lockFile]
       ELSE UNCHANGED <<lockFile, acquired, deleted>>
    /\ pc' = [pc EXCEPT ![i] = "done"]
    /\ UNCHANGED <<proc, now, lockErr, via, obs, dirVars, runVars>>
    /\ UNCHANGED wakeVars
    /\ UNCHANGED planVars

\* ------------------------------------------------------------------------
\* MDASUploader: the run of upload_batch
\* ------------------------------------------------------------------------
\* results['files'].append({'name': ..., 'status': ...}) with its counter;
\* content is not in the report: it records which content the entry is about.
Recorded(res, name, status, content) ==
    [res EXCEPT !.files = Append(@, [name |-> name, status |-> status, content |-> content]),
                !.successful = IF status = "success" THEN @ + 1 ELSE @,
                !.failed = IF status = "failed" THEN @ + 1 ELSE @,
                !.skipped = IF status = "skipped" THEN @ + 1 ELSE @]

\* The inbox scan (lines 671-674): regular files that are not hidden and do
\* not end with the claim suffix.
Listable(dir) == {n \in DOMAIN dir : ~IsHidden(n) /\ ~EndsWithUploading(n)}

\* iterdir() yields the entries in an order of its own.
Orders(S) ==
    {s \in [1..Cardinality(S) -> S] : \A a, b \in 1..Cardinality(S) : s[a] = s[b] => a = b}

\* Mutant of ListInbox: the run goes from the listing to the files without
\* waking the server.
ListInbox_SkipsWakeup(i) ==
    /\ pc[i] = "scan"
    /\ listed' = [listed EXCEPT ![i] = TRUE]
    /\ IF Listable(inbox) = {}
       THEN /\ pc' = [pc EXCEPT ![i] = "release"]
            /\ files' = files
       ELSE /\ pc' = [pc EXCEPT ![i] = "loop"]
            /\ \E order \in Orders(Listable(inbox)) : files' = [files EXCEPT ![i] = order]
    /\ UNCHANGED <<lockVars, dirVars, claimed, attempt, response, dest, results, sent>>
    /\ UNCHANGED wakeVars
    /\ UNCHANGED planVars

\* upload_batch, lines 670-679: list the inbox; an empty list ends the run.
ListInbox(i) ==
    /\ pc[i] = "scan"
    /\ listed' = [listed EXCEPT ![i] = TRUE]
    /\ IF Listable(inbox) = {}
       THEN /\ pc' = [pc EXCEPT ![i] = "release"]
            /\ files' = files
       ELSE /\ pc' = [pc EXCEPT ![i] = "wake"]
            /\ \E order \in Orders(Listable(inbox)) : files' = [files EXCEPT ![i] = order]
    /\ UNCHANGED <<lockVars, dirVars, claimed, attempt, response, dest, results, sent>>
    /\ UNCHANGED wakeVars
    /\ UNCHANGED planVars

\* upload_batch, lines 684-687, with _wakeup_server as one step: the server
\* answers in time or the attempts run out and the run ends, every listed
\* file counted as failed.
WakeupServer(i) ==
    /\ pc[i] = "wake"
    /\ \E awake \in BOOLEAN :
         IF awake
         THEN /\ pc' = [pc EXCEPT ![i] = "loop"]
              /\ results' = results
         ELSE /\ pc' = [pc EXCEPT ![i] = "release"]
              /\ results' = [results EXCEPT ![i].failed = Len(files[i]),
                                            ![i].error = "Server unavailable"]
    /\ UNCHANGED <<lockVars, dirVars, files, listed, claimed, attempt, response, dest, sent>>
    /\ UNCHANGED wakeVars
    /\ UNCHANGED planVars

\* main, lines 817-820: the upload action is refused without an API key, so
\* in every upload run a key is configured.
ApiKeyConfigured == TRUE

\* What a wake-up ping can meet: no answer at all (a timeout, a connection
\* error: code 0), a status other than 200 (503), a 200 whose body is not
\* JSON (data NoPing), or a 200 with the fields the server reports.  The
\* defaults of data.get stand for absent fields.
PingData ==
    [serviceStatus : {"running", "starting", "unknown"},
     keyStatus : {"valid", "invalid", "not_provided"},
     hostApproval : {"absent", "approved", "pending", "denied"}]

PingAnswers ==
    {[code |-> c, data |-> NoPing] : c \in {0, 503, 200}}
       \cup {[code |-> 200, data |-> d] : d \in PingData}

\* Mutant of WakeupPingOk: a running service is enough.
WakeupPingOk_RunningOnly(a) ==
    a.code = 200 /\ a.data.serviceStatus = "running"

\* _wakeup_ping (lines 391-439), its result for an answer.
WakeupPingOk(a) ==
    /\ a.code = 200
    /\ a.data.serviceStatus = "running"
    /\ a.data.keyStatus = "valid"

\* Mutant of WakeupPing: the loop goes on after a ping that succeeded.
WakeupPing_KeepsPinging(i) ==
    /\ pc[i] = "wake"
    /\ pings[i] < MAX_WAKEUP_ATTEMPTS
    /\ \E a \in PingAnswers :
         /\ answer' = [answer EXCEPT ![i] = a]
         /\ lastPing' = [lastPing EXCEPT ![i] =
                           IF a.code = 200 /\ a.data # NoPing THEN a.data ELSE @]
    /\ pings' = [pings EXCEPT ![i] = @ + 1]
    /\ UNCHANGED <<pc, lockVars, dirVars, runVars, planVars>>

\* _wakeup_server, one turn of its loop (lines 457-484) with the ping it
\* sends: a 200 with a JSON body is kept as _last_ping_data; a successful
\* ping ends the loop and upload_batch goes on to the files.
WakeupPing(i) ==
    /\ pc[i] = "wake"
    /\ pings[i] < MAX_WAKEUP_ATTEMPTS
    /\ \E a \in PingAnswers :
         /\ answer' = [answer EXCEPT ![i] = a]
         /\ lastPing' = [lastPing EXCEPT ![i] =
                           IF a.code = 200 /\ a.data # NoPing THEN a.data ELSE @]
         /\ pc' = [pc EXCEPT ![i] = IF WakeupPingOk(a) THEN "loop" ELSE @]
    /\ pings' = [pings EXCEPT ![i] = @ + 1]
    /\ UNCHANGED <<lockVars, dirVars, runVars, planVars>>

\* Mutant of WakeupExhausted: the run goes on to the files after the
\* attempts ran out.
WakeupExhausted_GoesOn(i) ==
    /\ pc[i] = "wake"
    /\ pings[i] >= MAX_WAKEUP_ATTEMPTS
    /\ pc' = [pc EXCEPT ![i] = "loop"]
    /\ results' = [results EXCEPT ![i].failed = Len(files[i]),
                                  ![i].error = "Server unavailable"]
    /\ UNCHANGED <<lockVars, dirVars, wakeVars, planVars>>
    /\ UNCHANGED <<files, listed, claimed, attempt, response, dest, sent>>

\* _wakeup_server, lines 486-489, and upload_batch, lines 685-687: the
\* attempts ran out; the run ends, every listed file counted as failed.
WakeupExhausted(i) ==
    /\ pc[i] = "wake"
    /\ pings[i] >= MAX_WAKEUP_ATTEMPTS
    /\ pc' = [pc EXCEPT ![i] = "release"]
    /\ results' = [results EXCEPT ![i].failed = Len(files[i]),
                                  ![i].error = "Server unavailable"]
    /\ UNCHANGED <<lockVars, dirVars, wakeVars, planVars>>
    /\ UNCHANGED <<files, listed, claimed, attempt, response, dest, sent>>

\* Mutant of ClaimCheck: a file that is gone is counted as failed.
ClaimCheck_MissingIsFailed(i) ==
    /\ pc[i] = "loop"
    /\ files[i] # <<>>
    /\ LET file_path == Head(files[i]) IN
         IF Exists(inbox, file_path)
         THEN /\ pc' = [pc EXCEPT ![i] = "claim_rename"]
              /\ UNCHANGED <<files, results>>
         ELSE /\ results' = [results EXCEPT ![i] = Recorded(@, file_path, "failed", 0)]
              /\ files' = [files EXCEPT ![i] = Tail(@)]
              /\ pc' = pc
    /\ UNCHANGED <<lockVars, dirVars, listed, claimed, attempt, response, dest, sent>>
    /\ UNCHANGED wakeVars
    /\ UNCHANGED planVars

\* _claim_file, its test (lines 317-319), for the next listed file: a file
\* that is gone is skipped.
ClaimCheck(i) ==
    /\ pc[i] = "loop"
    /\ files[i] # <<>>
    /\ LET file_path == Head(files[i]) IN
         IF Exists(inbox, file_path)
         THEN /\ pc' = [pc EXCEPT ![i] = "claim_rename"]
              /\ UNCHANGED <<files, results>>
         ELSE /\ results' = [results EXCEPT ![i] = Recorded(@, file_path, "skipped", 0)]
              /\ files' = [files EXCEPT ![i] = Tail(@)]
              /\ pc' = pc
    /\ UNCHANGED <<lockVars, dirVars, listed, claimed, attempt, response, dest, sent>>
    /\ UNCHANGED wakeVars
    /\ UNCHANGED planVars

\* Mutant of ClaimRename: the claim copies the file to the claimed path and
\* leaves the original in place.
ClaimRename_Copy(i) ==
    /\ pc[i] = "claim_rename"
    /\ LET file_path == Head(files[i]) IN
         IF Exists(inbox, file_path)
         THEN /\ inbox' = Put(inbox, ClaimedPath(file_path), inbox[file_path])
              /\ claimed' = [claimed EXCEPT ![i] = ClaimedPath(file_path)]
              /\ pc' = [pc EXCEPT ![i] = "stat"]
              /\ UNCHANGED <<files, results>>
         ELSE /\ results' = [results EXCEPT ![i] = Recorded(@, file_path, "skipped", 0)]
              /\ files' = [files EXCEPT ![i] = Tail(@)]
              /\ pc' = [pc EXCEPT ![i] = "loop"]
              /\ UNCHANGED <<inbox, claimed>>
    /\ UNCHANGED <<lockVars, processed, arrivals, listed, attempt, response, dest, sent>>
    /\ UNCHANGED wakeVars
    /\ UNCHANGED planVars

\* _claim_file, its rename (lines 321-330): FileNotFoundError when the file
\* is gone by now, and the file is skipped.
ClaimRename(i) ==
    /\ pc[i] = "claim_rename"
    /\ LET file_path == Head(files[i]) IN
         IF Exists(inbox, file_path)
         THEN /\ inbox' = Renamed(inbox, file_path, ClaimedPath(file_path))
              /\ claimed' = [claimed EXCEPT ![i] = ClaimedPath(file_path)]
              /\ pc' = [pc EXCEPT ![i] = "stat"]
              /\ UNCHANGED <<files, results>>
         ELSE /\ results' = [results EXCEPT ![i] = Recorded(@, file_path, "skipped", 0)]
              /\ files' = [files EXCEPT ![i] = Tail(@)]
              /\ pc' = [pc EXCEPT ![i] = "loop"]
              /\ UNCHANGED <<inbox, claimed>>
    /\ UNCHANGED <<lockVars, processed, arrivals, listed, attempt, response, dest, sent>>
    /\ UNCHANGED wakeVars
    /\ UNCHANGED planVars

\* _upload_single_file, line 608: file_path.stat() outside any try; when the
\* claimed file is gone the exception ends upload_batch and the process
\* exits through its exit-time release.
StatFile(i) ==
    /\ pc[i] = "stat"
    /\ IF Exists(inbox, claimed[i])
       THEN /\ attempt' = [attempt EXCEPT ![i] = 1]
            /\ pc' = [pc EXCEPT ![i] = "upload"]
            /\ results' = results
       ELSE /\ results' = [results EXCEPT ![i].error = "exception"]
            /\ pc' = [pc EXCEPT ![i] = "release"]
            /\ attempt' = attempt
    /\ UNCHANGED <<lockVars, dirVars, files, listed, claimed, response, dest, sent>>
    /\ UNCHANGED wakeVars
    /\ UNCHANGED planVars

\* What one transfer attempt can meet: the remote's status (200, 409, or an
\* error status, a timeout or a connection error: 500), or, when the claimed
\* file cannot be opened, the exception (0).
Responses(i) == IF Exists(inbox, claimed[i]) THEN {200, 409, 500} ELSE {0}

\* _upload_single_file, one turn of its loop (lines 613-657).
UploadAttempt(i) ==
    /\ pc[i] = "upload"
    /\ \E status_code \in Responses(i) :
       /\ response' = [response EXCEPT ![i] = status_code]
       /\ IF status_code \in {200, 409}
         THEN /\ sent' = [sent EXCEPT ![i] = inbox[claimed[i]]]
              /\ pc' = [pc EXCEPT ![i] = "finalize"]
              /\ attempt' = attempt
         ELSE /\ sent' = sent
              /\ IF attempt[i] < MAX_RETRIES
                 THEN /\ attempt' = [attempt EXCEPT ![i] = @ + 1]
                      /\ pc' = pc
                 ELSE /\ attempt' = attempt
                      /\ pc' = [pc EXCEPT ![i] = "unclaim"]
    /\ UNCHANGED <<lockVars, dirVars, files, listed, claimed, dest, results>>
    /\ UNCHANGED wakeVars
    /\ UNCHANGED planVars

RECURSIVE FirstFree(_, _, _)
\* _get_unique_filename, its loop (lines 361-369)
FirstFree(dir, filename, counter) ==
    IF ~Exists(dir, Numbered(filename, counter))
    THEN counter
    ELSE FirstFree(dir, filename, counter + 1)

\* Mutant of GetUniqueFilename: a taken name always gets the number 1.
GetUniqueFilename_FirstNumber(dir, filename) ==
    LET name == StripUploading(filename) IN
      IF ~Exists(dir, name) THEN name ELSE Numbered(name, 1)

\* _get_unique_filename (lines 347-369)
GetUniqueFilename(dir, filename) ==
    LET name == StripUploading(filename) IN
      IF ~Exists(dir, name) THEN name
      ELSE Numbered(name, FirstFree(dir, name, 1))

\* _move_to_processed, up to its move (lines 375-379): the destination is
\* chosen.
ChooseDestination(i) ==
    /\ pc[i] = "finalize"
    /\ dest' = [dest EXCEPT ![i] = GetUniqueFilename(processed, StripUploading(claimed[i]))]
    /\ pc' = [pc EXCEPT ![i] = "move"]
    /\ UNCHANGED <<lockVars, dirVars, files, listed, claimed, attempt, response, results, sent>>
    /\ UNCHANGED wakeVars
    /\ UNCHANGED planVars

\* upload_batch, lines 717-718, after _move_to_processed returned.
AfterMove(i) ==
    /\ results' = [results EXCEPT ![i] =
                      Recorded(@, Head(files[i]), "success", sent[i])]
    /\ files' = [files EXCEPT ![i] = Tail(@)]
    /\ claimed' = [claimed EXCEPT ![i] = NoPath]
    /\ response' = [response EXCEPT ![i] = 0]
    /\ pc' = [pc EXCEPT ![i] = "loop"]

\* _move_to_processed, its move (line 380): shutil.move renames the claimed
\* file onto the destination, replacing a file that is there by now; a
\* missing source raises, and the exception is logged and passed over.
MoveToProcessed(i) ==
    /\ pc[i] = "move"
    /\ IF Exists(inbox, claimed[i])
       THEN /\ processed' = Put(processed, dest[i], inbox[claimed[i]])
            /\ inbox' = Removed(inbox, claimed[i])
       ELSE UNCHANGED <<inbox, processed>>
    /\ AfterMove(i)
    /\ UNCHANGED <<lockVars, arrivals, listed, attempt, dest, sent>>
    /\ UNCHANGED wakeVars
    /\ UNCHANGED planVars

\* _move_to_processed, lines 386-389: the move raises for a reason of the
\* host (permissions, a locked file, a full disk); the file stays claimed.
MoveFails(i) ==
    /\ pc[i] = "move"
    /\ Exists(inbox, claimed[i])
    /\ AfterMove(i)
    /\ UNCHANGED <<lockVars, dirVars, listed, attempt, dest, sent>>
    /\ UNCHANGED wakeVars
    /\ UNCHANGED planVars

\* upload_batch, lines 722-723, after _unclaim_file returned.
AfterUnclaim(i) ==
    /\ results' = [results EXCEPT ![i] = Recorded(@, Head(files[i]), "failed", 0)]
    /\ files' = [files EXCEPT ![i] = Tail(@)]
    /\ claimed' = [claimed EXCEPT ![i] = NoPath]
    /\ response' = [response EXCEPT ![i] = 0]
    /\ pc' = [pc EXCEPT ![i] = "loop"]

\* _unclaim_file (lines 337-345): the claimed file is renamed to its name
\* without the claim suffix; a missing source raises and is passed over.
UnclaimFile(i) ==
    /\ pc[i] = "unclaim"
    /\ IF Exists(inbox, claimed[i])
       THEN inbox' = Renamed(inbox, claimed[i], UnclaimedName(claimed[i]))
       ELSE inbox' = inbox
    /\ AfterUnclaim(i)
    /\ UNCHANGED <<lockVars, processed, arrivals, listed, attempt, dest, sent>>
    /\ UNCHANGED wakeVars
    /\ UNCHANGED planVars

\* _unclaim_file, lines 343-345: the rename raises for a reason of the host;
\* the file stays claimed.
UnclaimFails(i) ==
    /\ pc[i] = "unclaim"
    /\ Exists(inbox, claimed[i])
    /\ AfterUnclaim(i)
    /\ UNCHANGED <<lockVars, dirVars, listed, attempt, dest, sent>>
    /\ UNCHANGED wakeVars
    /\ UNCHANGED planVars

\* main, line 860: the exit code of the upload action for the result
\* upload_batch returned; an exception that leaves upload_batch ends the
\* process with the interpreter's code 1.
ExitCode(res) ==
    IF res.error = "exception" THEN 1
    ELSE IF res.failed = 0 THEN 0 ELSE 1

\* upload_batch, lines 725-744: the summary and the report end the run.
WriteReport(i) ==
    /\ pc[i] = "loop"
    /\ files[i] = <<>>
    /\ pc' = [pc EXCEPT ![i] = "release"]
    /\ UNCHANGED <<lockVars, dirVars, runVars>>
    /\ UNCHANGED wakeVars
    /\ UNCHANGED planVars

\* upload_batch, lines 736-739: open or json.dump raises for a reason of the
\* host (permissions, a full disk, a logs folder that is gone); nothing
\* catches it, the exception leaves upload_batch and main, and the process
\* exits through its exit-time release.
WriteReportFails(i) ==
    /\ pc[i] = "loop"
    /\ files[i] = <<>>
    /\ results' = [results EXCEPT ![i].error = "exception"]
    /\ pc' = [pc EXCEPT ![i] = "release"]
    /\ UNCHANGED <<lockVars, dirVars, files, listed, claimed, attempt, response, dest, sent>>
    /\ UNCHANGED wakeVars
    /\ UNCHANGED planVars

\* ------------------------------------------------------------------------
\* Environment
\* ------------------------------------------------------------------------
Tick ==
    /\ now < MaxTicks
    /\ now' = now + 1
    /\ UNCHANGED <<lockFile, pc, acquired, lockErr, lockObs, dirVars, runVars>>
    /\ UNCHANGED wakeVars
    /\ UNCHANGED planVars

\* A hard kill: the process ends at once, no exit-time release runs.
Kill(i) ==
    /\ ProcAlive(i)
    /\ pc' = [pc EXCEPT ![i] = "killed"]
    /\ UNCHANGED <<now, lockFile, acquired, lockErr, lockObs, dirVars, runVars>>
    /\ UNCHANGED wakeVars
    /\ UNCHANGED planVars

\* The names new files arrive under.
ArrivalNames == {<<"a", ".txt">>}

\* A producer drops a new file into the inbox, under a name free there.
Arrive ==
    /\ arrivals < MaxArrivals
    /\ \E name \in ArrivalNames :
         /\ ~Exists(inbox, name)
         /\ inbox' = Put(inbox, name, 10 + arrivals)
    /\ arrivals' = arrivals + 1
    /\ UNCHANGED <<lockVars, pc, processed, runVars>>
    /\ UNCHANGED wakeVars
    /\ UNCHANGED planVars

\* ------------------------------------------------------------------------
\* Specifications
\* ------------------------------------------------------------------------
InitLock ==
    /\ proc \in Layouts
    /\ now = 0
    /\ lockFile = NoToken
    /\ pc = [i \in Inst |-> "start"]
    /\ acquired = [i \in Inst |-> FALSE]
    /\ lockErr = [i \in Inst |-> NoErr]
    /\ via = [i \in Inst |-> "none"]
    /\ deleted = [i \in Inst |-> NoToken]
    /\ obs = [i \in Inst |-> NoObs]
    /\ inbox = EmptyDir
    /\ processed = EmptyDir
    /\ files = [i \in Inst |-> <<>>]
    /\ listed = [i \in Inst |-> FALSE]
    /\ claimed = [i \in Inst |-> NoPath]
    /\ attempt = [i \in Inst |-> 0]
    /\ response = [i \in Inst |-> 0]
    /\ answer = [i \in Inst |-> NoAnswer]
    /\ pings = [i \in Inst |-> 0]
    /\ lastPing = [i \in Inst |-> NoPing]
    /\ dest = [i \in Inst |-> NoPath]
    /\ results = [i \in Inst |-> NoResults]
    /\ sent = [i \in Inst |-> 0]
    /\ arrivals = 0
    /\ xfer = NoTransfer
    /\ batch = NoBatch

\* The lock protocol alone.
NextLock ==
    \/ \E i \in Inst : AcquireRead(i)
    \/ \E i \in Inst : AcquireWrite(i)
    \/ \E i \in Inst : RunBody(i)
    \/ \E i \in Inst : ReleaseRead(i)
    \/ \E i \in Inst : ReleaseUnlink(i)
    \/ \E i \in Inst : Kill(i)
    \/ Tick

SpecLock == InitLock /\ [][NextLock]_vars

\* acquire as one step (lines 140-176): the token is read, judged and, when
\* the way is free, written, with no step of another instance in between.
AcquireAtomic(i) ==
    /\ pc[i] = "start"
    /\ LET d == AcquireDecision(i, lockFile) IN
         IF d \in {"free", "stale", "dead"}
         THEN /\ lockFile' = LockInfo(i)
              /\ acquired' = [acquired EXCEPT ![i] = TRUE]
              /\ pc' = [pc EXCEPT ![i] = "scan"]
              /\ via' = [via EXCEPT ![i] = d]
              /\ UNCHANGED <<lockErr, results>>
         ELSE /\ pc' = [pc EXCEPT ![i] = "done"]
              /\ lockErr' = [lockErr EXCEPT ![i] = AcquireError(d, lockFile)]
              /\ results' = [results EXCEPT ![i].error = "Lock conflict"]
              /\ UNCHANGED <<lockFile, acquired, via>>
    /\ obs' = [obs EXCEPT ![i] =
                 [probed |-> AcquireDecision(i, lockFile) \in {"dead", "running"},
                 ownerAlive |-> lockFile # NoToken /\ ProcAlive(lockFile.writer)]]
    /\ UNCHANGED <<proc, now, deleted, dirVars>>
    /\ UNCHANGED <<files, listed, claimed, attempt, response, dest, sent>>
    /\ UNCHANGED wakeVars
    /\ UNCHANGED planVars

\* The lock protocol with every acquire in one step; releases keep their
\* two steps.
NextAtomic ==
    \/ \E i \in Inst : AcquireAtomic(i)
    \/ \E i \in Inst : RunBody(i)
    \/ \E i \in Inst : ReleaseRead(i)
    \/ \E i \in Inst : ReleaseUnlink(i)
    \/ \E i \in Inst : Kill(i)
    \/ Tick

SpecAtomic == InitLock /\ [][NextAtomic]_vars

\* acquire returning failure to a caller that keeps its InstanceLock (lines
\* 147-168): the token read tells of a running owner.  Nothing is written;
\* the caller stays alive, at "lost".
AcquireFails(i) ==
    /\ pc[i] = "start"
    /\ AcquireDecision(i, lockFile) \in {"running", "running_on"}
    /\ pc' = [pc EXCEPT ![i] = "lost"]
    /\ lockErr' = [lockErr EXCEPT ![i] =
                     AcquireError(AcquireDecision(i, lockFile), lockFile)]
    /\ obs' = [obs EXCEPT ![i] =
                 [probed |-> AcquireDecision(i, lockFile) = "running",
                  ownerAlive |-> ProcAlive(lockFile.writer)]]
    /\ UNCHANGED <<proc, now, lockFile, acquired, via, deleted, dirVars, runVars>>
    /\ UNCHANGED wakeVars
    /\ UNCHANGED planVars

\* Mutant of ReleaseLoser: release does not look at self.acquired.
ReleaseLoser_NoAcquiredTest(i) ==
    /\ pc[i] = "lost"
    /\ IF lockFile # NoToken /\ lockFile.pid = PidOf(i)
       THEN /\ lockFile' = NoToken
            /\ acquired' = [acquired EXCEPT ![i] = FALSE]
            /\ deleted' = [deleted EXCEPT ![i] = lockFile]
       ELSE UNCHANGED <<lockFile, acquired, deleted>>
    /\ pc' = [pc EXCEPT ![i] = "done"]
    /\ UNCHANGED <<proc, now, lockErr, via, obs, dirVars, runVars>>
    /\ UNCHANGED wakeVars
    /\ UNCHANGED planVars

\* release called after acquire returned failure (lines 178-188): the token
\* is unlinked only if self.acquired holds, the file exists and its pid is
\* the caller's.  The caller exits afterwards.
ReleaseLoser(i) ==
    /\ pc[i] = "lost"
    /\ IF acquired[i] /\ lockFile # NoToken /\ lockFile.pid = PidOf(i)
       THEN /\ lockFile' = NoToken
            /\ acquired' = [acquired EXCEPT ![i] = FALSE]
            /\ deleted' = [deleted EXCEPT ![i] = lockFile]
       ELSE UNCHANGED <<lockFile, acquired, deleted>>
    /\ pc' = [pc EXCEPT ![i] = "done"]
    /\ UNCHANGED <<proc, now, lockErr, via, obs, dirVars, runVars>>
    /\ UNCHANGED wakeVars
    /\ UNCHANGED planVars

\* The lock protocol, with callers that exit on a failed acquire, as
\* upload_batch does, and callers that call release after it.
NextLoser ==
    \/ NextLock
    \/ \E i \in Inst : AcquireFails(i)
    \/ \E i \in Inst : ReleaseLoser(i)

SpecLoser == InitLock /\ [][NextLoser]_vars

\* ------------------------------------------------------------------------
\* The lock file as text: contents that are no token
\* ------------------------------------------------------------------------
\* A lock file that exists and holds no token: empty (opened for writing and
\* not yet written), partial (the start of a token), undecodable (bytes that
\* are no text in the reader's encoding).  The record keeps the fields of a
\* token, with the kind of content in the hostname field.
Unparsable == {"empty", "partial", "undecodable"}

BadToken(kind) ==
    [pid |-> 0, hostname |-> kind, started_at |-> 0, timestamp |-> 0, writer |-> "none"]

\* _read_lock_info (lines 98-106): json.load's JSONDecodeError, raised on
\* empty or partial text, and IOError are caught and None is returned, as for
\* a missing file.
ReadLockInfo(file) ==
    IF file \in {BadToken("empty"), BadToken("partial")} THEN NoToken ELSE file

\* _read_lock_info, the exception it lets through: reading undecodable bytes
\* from a file opened in text mode raises UnicodeDecodeError, a ValueError
\* that is neither a JSONDecodeError nor an IOError.
ReadRaises(file) == file = BadToken("undecodable")

\* acquire, up to its write, reading the lock file as text.  An exception of
\* the read leaves acquire and upload_batch and ends the process.
AcquireReadToken(i) ==
    /\ pc[i] = "start"
    /\ IF ReadRaises(lockFile)
       THEN /\ pc' = [pc EXCEPT ![i] = "done"]
            /\ results' = [results EXCEPT ![i].error = "exception"]
            /\ UNCHANGED <<lockErr, via, obs>>
       ELSE LET existing_lock == ReadLockInfo(lockFile)
                d == AcquireDecision(i, existing_lock) IN
            /\ IF d \in {"free", "stale", "dead"}
               THEN /\ pc' = [pc EXCEPT ![i] = "acq_write"]
                    /\ via' = [via EXCEPT ![i] = d]
                    /\ UNCHANGED <<lockErr, results>>
               ELSE /\ pc' = [pc EXCEPT ![i] = "done"]
                    /\ lockErr' = [lockErr EXCEPT ![i] = AcquireError(d, existing_lock)]
                    /\ results' = [results EXCEPT ![i].error = "Lock conflict"]
                    /\ via' = via
            /\ obs' = [obs EXCEPT ![i] =
                         [probed |-> d \in {"dead", "running"},
                          ownerAlive |-> existing_lock # NoToken
                                            /\ ProcAlive(existing_lock.writer)]]
    /\ UNCHANGED <<proc, now, lockFile, acquired, deleted, dirVars>>
    /\ UNCHANGED <<files, listed, claimed, attempt, response, dest, sent>>
    /\ UNCHANGED wakeVars
    /\ UNCHANGED planVars

\* _write_lock_info, open(lock_path, 'w') (line 116): the file is created
\* or cut to nothing.
OpenTruncate(i) ==
    /\ pc[i] = "acq_write"
    /\ lockFile' = BadToken("empty")
    /\ pc' = [pc EXCEPT ![i] = "acq_dump"]
    /\ UNCHANGED <<proc, now, acquired, lockErr, via, deleted, obs, dirVars, runVars>>
    /\ UNCHANGED wakeVars
    /\ UNCHANGED planVars

\* _write_lock_info, json.dump and the close (line 117), and acquire's
\* self.acquired = True (line 173).
DumpToken(i) ==
    /\ pc[i] = "acq_dump"
    /\ lockFile' = LockInfo(i)
    /\ acquired' = [acquired EXCEPT ![i] = TRUE]
    /\ pc' = [pc EXCEPT ![i] = "scan"]
    /\ UNCHANGED <<proc, now, lockErr, via, deleted, obs, dirVars, runVars>>
    /\ UNCHANGED wakeVars
    /\ UNCHANGED planVars

\* release, its test, reading the lock file as text (lines 180-184).
ReleaseReadToken(i) ==
    /\ pc[i] = "release"
    /\ pc' = [pc EXCEPT ![i] =
                IF /\ acquired[i] /\ lockFile # NoToken /\ ~ReadRaises(lockFile)
                   /\ ReadLockInfo(lockFile) # NoToken
                   /\ ReadLockInfo(lockFile).pid = PidOf(i)
                THEN "rel_unlink" ELSE "done"]
    /\ UNCHANGED <<now, lockFile, acquired, lockErr, lockObs, dirVars, runVars>>
    /\ UNCHANGED wakeVars
    /\ UNCHANGED planVars

\* The lock files a run may find: none, or what a process that died while
\* writing, or a damaged disk, left behind.
InitToken ==
    /\ proc \in Layouts
    /\ now = 0
    /\ lockFile \in {NoToken, BadToken("partial"), BadToken("undecodable")}
    /\ pc = [i \in Inst |-> "start"]
    /\ acquired = [i \in Inst |-> FALSE]
    /\ lockErr = [i \in Inst |-> NoErr]
    /\ via = [i \in Inst |-> "none"]
    /\ deleted = [i \in Inst |-> NoToken]
    /\ obs = [i \in Inst |-> NoObs]
    /\ inbox = EmptyDir
    /\ processed = EmptyDir
    /\ files = [i \in Inst |-> <<>>]
    /\ listed = [i \in Inst |-> FALSE]
    /\ claimed = [i \in Inst |-> NoPath]
    /\ attempt = [i \in Inst |-> 0]
    /\ response = [i \in Inst |-> 0]
    /\ answer = [i \in Inst |-> NoAnswer]
    /\ pings = [i \in Inst |-> 0]
    /\ lastPing = [i \in Inst |-> NoPing]
    /\ dest = [i \in Inst |-> NoPath]
    /\ results = [i \in Inst |-> NoResults]
    /\ sent = [i \in Inst |-> 0]
    /\ arrivals = 0
    /\ xfer = NoTransfer
    /\ batch = NoBatch

NextToken ==
    \/ \E i \in Inst : AcquireReadToken(i)
    \/ \E i \in Inst : OpenTruncate(i)
    \/ \E i \in Inst : DumpToken(i)
    \/ \E i \in Inst : RunBody(i)
    \/ \E i \in Inst : ReleaseReadToken(i)
    \/ \E i \in Inst : ReleaseUnlink(i)
    \/ \E i \in Inst : Kill(i)
    \/ Tick

SpecToken == InitToken /\ [][NextToken]_vars

\* The instances that run upload_batch in the full specification.
Runners == {"p1", "p2"}

\* The folders at the start of the runs.
StartDirs ==
    { [inbox |-> (<<"a", ".txt">> :> 1), processed |-> EmptyDir] }

Init ==
    /\ proc \in {l \in Layouts : l.p3.host = "hostB"}
    /\ \E d \in StartDirs : inbox = d.inbox /\ processed = d.processed
    /\ now = 0
    /\ lockFile = NoToken
    /\ pc = [i \in Inst |-> "start"]
    /\ acquired = [i \in Inst |-> FALSE]
    /\ lockErr = [i \in Inst |-> NoErr]
    /\ via = [i \in Inst |-> "none"]
    /\ deleted = [i \in Inst |-> NoToken]
    /\ obs = [i \in Inst |-> NoObs]
    /\ files = [i \in Inst |-> <<>>]
    /\ listed = [i \in Inst |-> FALSE]
    /\ claimed = [i \in Inst |-> NoPath]
    /\ attempt = [i \in Inst |-> 0]
    /\ response = [i \in Inst |-> 0]
    /\ answer = [i \in Inst |-> NoAnswer]
    /\ pings = [i \in Inst |-> 0]
    /\ lastPing = [i \in Inst |-> NoPing]
    /\ dest = [i \in Inst |-> NoPath]
    /\ results = [i \in Inst |-> NoResults]
    /\ sent = [i \in Inst |-> 0]
    /\ arrivals = 0
    /\ xfer = NoTransfer
    /\ batch = NoBatch

\* One step of the run of upload_batch by instance i, or its hard kill.
RunStep(i) ==
    \/ AcquireRead(i)
    \/ AcquireWrite(i)
    \/ ListInbox(i)
    \/ WakeupServer(i)
    \/ ClaimCheck(i)
    \/ ClaimRename(i)
    \/ StatFile(i)
    \/ UploadAttempt(i)
    \/ ChooseDestination(i)
    \/ MoveToProcessed(i)
    \/ MoveFails(i)
    \/ UnclaimFile(i)
    \/ UnclaimFails(i)
    \/ WriteReport(i)
    \/ ReleaseRead(i)
    \/ ReleaseUnlink(i)
    \/ Kill(i)

\* The runs of upload_batch over an inbox no producer writes to meanwhile.
NextClosed ==
    \/ \E i \in Runners : RunStep(i)
    \/ Tick

SpecClosed == Init /\ [][NextClosed]_vars

\* The runs of upload_batch, with the producers of the inbox.
Next ==
    \/ NextClosed
    \/ Arrive

Spec == Init /\ [][Next]_vars

\* Two instances inside the per-file loop at the same time (both passed
\* acquire, listed the inbox and woke the server), each with one listed file
\* left and, when given, a claimed path it has transferred.
InLoop(pcs, listing, paths) ==
    /\ proc \in {l \in Layouts : l.p3.host = "hostB"}
    /\ now = 0
    /\ lockFile = [pid |-> 2, hostname |-> "hostA", started_at |-> 0,
                   timestamp |-> 0, writer |-> "p2"]
    /\ pc = [i \in Inst |-> IF i \in Runners THEN pcs ELSE "start"]
    /\ acquired = [i \in Inst |-> i \in Runners]
    /\ lockErr = [i \in Inst |-> NoErr]
    /\ via = [i \in Inst |-> IF i \in Runners THEN "free" ELSE "none"]
    /\ deleted = [i \in Inst |-> NoToken]
    /\ obs = [i \in Inst |-> NoObs]
    /\ files = [i \in Inst |-> IF i \in Runners THEN <<listing[i]>> ELSE <<>>]
    /\ listed = [i \in Inst |-> i \in Runners]
    /\ claimed = [i \in Inst |-> IF i \in Runners THEN paths[i] ELSE NoPath]
    /\ attempt = [i \in Inst |-> IF i \in Runners /\ paths[i] # NoPath THEN 1 ELSE 0]
    /\ response = [i \in Inst |-> IF i \in Runners /\ paths[i] # NoPath THEN 200 ELSE 0]
    /\ answer = [i \in Inst |-> NoAnswer]
    /\ pings = [i \in Inst |-> 0]
    /\ lastPing = [i \in Inst |-> NoPing]
    /\ dest = [i \in Inst |-> NoPath]
    /\ results = [i \in Inst |-> NoResults]
    /\ sent = [i \in Inst |-> IF i \in Runners /\ paths[i] # NoPath
                                THEN inbox[paths[i]] ELSE 0]
    /\ arrivals = 0
    /\ xfer = NoTransfer
    /\ batch = NoBatch

\* The files two callers of _claim_file race for, and what else the folders
\* may hold: a claimed file a crashed instance left, another file, a
\* processed file of the same name.
ClaimTargets == {<<"a", ".txt">>, <<"dup", " (1)", ".txt">>}

OptionalEntries(name, content) == {EmptyDir, name :> content}

InitClaim ==
    \E f \in ClaimTargets :
      /\ \E stale \in OptionalEntries(ClaimedPath(f), 2) :
         \E other \in OptionalEntries(<<"b", ".bin">>, 3) :
             inbox = (f :> 1) @@ stale @@ other
      /\ processed \in OptionalEntries(f, 4)
      /\ InLoop("loop", [i \in Runners |-> f], [i \in Runners |-> NoPath])

\* Two concurrent calls of _claim_file on one file.
NextClaim ==
    \/ \E i \in Runners : ClaimCheck(i)
    \/ \E i \in Runners : ClaimRename(i)

SpecClaim == InitClaim /\ [][NextClaim]_vars

\* Two instances that each hold a claimed, transferred file and finalize it,
\* over a processed folder that holds some files of these names already.
FinalizePairs ==
    { [p1 |-> <<"dup", ".txt">>, p2 |-> <<"dup", " (1)", ".txt">>],
      [p1 |-> <<"dup", ".txt">>, p2 |-> <<"a", ".txt">>] }

InitFinalize ==
    \E pair \in FinalizePairs :
      /\ inbox = (ClaimedPath(pair.p1) :> 1) @@ (ClaimedPath(pair.p2) :> 2)
      /\ \E x \in OptionalEntries(<<"dup", ".txt">>, 3) :
         \E y \in OptionalEntries(<<"dup", " (1)", ".txt">>, 4) :
         \E z \in OptionalEntries(<<"a", ".txt">>, 5) :
             processed = x @@ y @@ z
      /\ InLoop("finalize", pair, [i \in Runners |-> ClaimedPath(pair[i])])

\* Concurrent calls of _move_to_processed.
NextFinalize ==
    \/ \E i \in Runners : ChooseDestination(i)
    \/ \E i \in Runners : MoveToProcessed(i)
    \/ \E i \in Runners : MoveFails(i)

SpecFinalize == InitFinalize /\ [][NextFinalize]_vars

\* One instance, p1, holds the lock and is at a position of upload_batch
\* after the inbox scan, with the files it listed; no other instance has
\* started.
Alone(at, listing) ==
    /\ proc \in {l \in Layouts : l.p3.host = "hostB"}
    /\ now = 0
    /\ lockFile = [pid |-> 1, hostname |-> "hostA", started_at |-> 0,
                   timestamp |-> 0, writer |-> "p1"]
    /\ pc = [i \in Inst |-> IF i = "p1" THEN at ELSE "start"]
    /\ acquired = [i \in Inst |-> i = "p1"]
    /\ lockErr = [i \in Inst |-> NoErr]
    /\ via = [i \in Inst |-> IF i = "p1" THEN "free" ELSE "none"]
    /\ deleted = [i \in Inst |-> NoToken]
    /\ obs = [i \in Inst |-> NoObs]
    /\ files = [i \in Inst |-> IF i = "p1" THEN listing ELSE <<>>]
    /\ listed = [i \in Inst |-> i = "p1"]
    /\ claimed = [i \in Inst |-> NoPath]
    /\ attempt = [i \in Inst |-> 0]
    /\ response = [i \in Inst |-> 0]
    /\ answer = [i \in Inst |-> NoAnswer]
    /\ pings = [i \in Inst |-> 0]
    /\ lastPing = [i \in Inst |-> NoPing]
    /\ dest = [i \in Inst |-> NoPath]
    /\ results = [i \in Inst |-> NoResults]
    /\ sent = [i \in Inst |-> 0]
    /\ arrivals = 0
    /\ xfer = NoTransfer
    /\ batch = NoBatch

\* The names the round trip of claim and unclaim is tried on: those of
\* RoundTripNames that the inbox scan accepts.
RoundTripNames ==
    { <<"a", ".txt">>, <<"report">>, <<"b", ".bin">>, <<"dup", " (1)", ".txt">>,
      <<"a", ".uploading", ".txt">>, <<".txt">>, <<"a", ".txt", ".uploading">> }

\* One instance inside the per-file loop with one listed file, of content 1,
\* over an inbox that may hold another file and a claimed file of the same
\* name that a killed run left.
InitRoundTrip ==
    \E f \in RoundTripNames :
      /\ \E stale \in OptionalEntries(ClaimedPath(f), 2) :
         \E other \in OptionalEntries(<<"c", ".bin">>, 3) :
             inbox = (f :> 1) @@ stale @@ other
      /\ f \in Listable(inbox)
      /\ processed = EmptyDir
      /\ Alone("loop", <<f>>)

\* _claim_file, the transfer attempts, and _unclaim_file after the last
\* failed attempt, by one instance.
NextRoundTrip ==
    \/ ClaimCheck("p1")
    \/ ClaimRename("p1")
    \/ StatFile("p1")
    \/ UploadAttempt("p1")
    \/ UnclaimFile("p1")

SpecRoundTrip == InitRoundTrip /\ [][NextRoundTrip]_vars

\* One instance that has listed the inbox and starts to wake the server.
InitWake ==
    /\ \E other \in OptionalEntries(<<"b", ".bin">>, 2) :
          inbox = (<<"a", ".txt">> :> 1) @@ other
    /\ processed = EmptyDir
    /\ \E order \in Orders(Listable(inbox)) : Alone("wake", order)

\* The wake-up of _wakeup_server ping by ping, and the claims that follow
\* it.
NextWake ==
    \/ WakeupPing("p1")
    \/ WakeupExhausted("p1")
    \/ ClaimCheck("p1")
    \/ ClaimRename("p1")

\* The loop of _wakeup_server is sequential code whose pings time out after
\* 15 seconds and whose sleeps end: an instance that can take a step takes
\* one.
SpecWake == InitWake /\ [][NextWake]_vars /\ WF_vars(NextWake)

\* One instance alone inside the per-file loop with two listed files, over a
\* processed folder that may hold a file named like one of them.
InitSolo ==
    /\ inbox = (<<"a", ".txt">> :> 1) @@ (<<"b", ".bin">> :> 2)
    /\ \E old \in OptionalEntries(<<"a", ".txt">>, 5) : processed = old
    /\ \E order \in Orders(Listable(inbox)) : Alone("loop", order)

\* The per-file loop of upload_batch and its report, by one instance, while
\* producers may drop new files.
NextSolo ==
    \/ ClaimCheck("p1")
    \/ ClaimRename("p1")
    \/ StatFile("p1")
    \/ UploadAttempt("p1")
    \/ ChooseDestination("p1")
    \/ MoveToProcessed("p1")
    \/ MoveFails("p1")
    \/ UnclaimFile("p1")
    \/ UnclaimFails("p1")
    \/ WriteReport("p1")
    \/ WriteReportFails("p1")
    \/ Arrive

SpecSolo == InitSolo /\ [][NextSolo]_vars

\* ------------------------------------------------------------------------
\* The transfer of one file, request by request
\*
\* MMSUploader._upload_file (batch-uploader.py) and
\* MDASUploader._upload_single_file (v1.4.0) called on a file of a given
\* size.  xfer.tries is retry_count of the former (from 0) and attempt of
\* the latter (from 1); xfer.requests are the requests of the current
\* attempt, xfer.sleeps the delays slept so far, in seconds.
\* ------------------------------------------------------------------------
Programs == {"MMSUploader", "MDASUploader"}

\* File sizes in bytes, around the chunk threshold and its multiples.
FileSizes ==
    {0, 10 * 1024, CHUNK_SIZE - 1, CHUNK_SIZE, CHUNK_SIZE + 1,
     40 * 1024 * 1024, 2 * CHUNK_SIZE, 2 * CHUNK_SIZE + 1}

Request(kind, chunkIndex, totalChunks, ok) ==
    [kind |-> kind, chunkIndex |-> chunkIndex, totalChunks |-> totalChunks, ok |-> ok]

\* _upload_file, line 416
TotalChunks(file_size) == (file_size + CHUNK_SIZE - 1) \div CHUNK_SIZE

\* _upload_file, its except branch (lines 435-442) after the request req
\* failed: sleep and call itself with retry_count + 1, or give up.
RetryUploadFile(x, req) ==
    IF x.tries < MAX_RETRIES
    THEN [x EXCEPT !.sleeps = Append(@, 2 ^ x.tries),
                   !.tries = @ + 1,
                   !.at = "session",
                   !.chunk = 0,
                   !.requests = <<>>]
    ELSE [x EXCEPT !.at = "false", !.requests = Append(@, req)]

\* _upload_file, lines 405-409, with _start_upload_session (lines 336-351):
\* without an upload id the call returns False.
StartUploadSession ==
    /\ xfer.program = "MMSUploader"
    /\ xfer.at = "session"
    /\ \E ok \in BOOLEAN :
         xfer' = [xfer EXCEPT !.requests = Append(@, Request("start", 0, 0, ok)),
                              !.at = IF ok THEN "send" ELSE "false"]
    /\ UNCHANGED <<pc, lockVars, dirVars, runVars, wakeVars, batch>>

\* _upload_file, lines 426-433, with _upload_file_content (lines 353-369).
UploadFileContent ==
    /\ xfer.program = "MMSUploader"
    /\ xfer.at = "send"
    /\ ~(xfer.file_size > CHUNK_SIZE)
    /\ \E ok \in BOOLEAN :
         LET req == Request("content", 0, 0, ok) IN
           xfer' = IF ok
                   THEN [xfer EXCEPT !.requests = Append(@, req), !.at = "true"]
                   ELSE RetryUploadFile(xfer, req)
    /\ UNCHANGED <<pc, lockVars, dirVars, runVars, wakeVars, batch>>

\* _upload_file, one turn of its chunk loop (lines 414-425, 432-433), with
\* _upload_file_chunk (lines 371-395).
UploadFileChunk ==
    /\ xfer.program = "MMSUploader"
    /\ xfer.at = "send"
    /\ xfer.file_size > CHUNK_SIZE
    /\ LET total_chunks == TotalChunks(xfer.file_size) IN
         \E ok \in BOOLEAN :
           LET req == Request("chunk", xfer.chunk, total_chunks, ok) IN
             xfer' = IF ok
                     THEN [xfer EXCEPT !.requests = Append(@, req),
                                       !.chunk = @ + 1,
                                       !.at = IF xfer.chunk + 1 = total_chunks
                                              THEN "true" ELSE @]
                     ELSE RetryUploadFile(xfer, req)
    /\ UNCHANGED <<pc, lockVars, dirVars, runVars, wakeVars, batch>>

\* _upload_single_file, one turn of its loop (lines 613-657): the file is
\* posted whole; after a failed attempt but the last the loop sleeps.
UploadSingleFileTurn ==
    /\ xfer.program = "MDASUploader"
    /\ xfer.at = "attempt"
    /\ \E status_code \in {200, 409, 500, 0} :
         LET req == Request("upload", 0, 0, status_code \in {200, 409}) IN
           xfer' = IF status_code \in {200, 409}
                   THEN [xfer EXCEPT !.requests = <<req>>, !.at = "true"]
                   ELSE IF xfer.tries < MAX_RETRIES
                   THEN [xfer EXCEPT !.requests = <<>>,
                                     !.sleeps = Append(@, 2 ^ xfer.tries),
                                     !.tries = @ + 1]
                   ELSE [xfer EXCEPT !.requests = <<req>>, !.at = "false"]
    /\ UNCHANGED <<pc, lockVars, dirVars, runVars, wakeVars, batch>>

\* No uploader process has started.
NoProcess ==
    /\ proc = CHOOSE l \in Layouts : l.p3.host = "hostA"
    /\ now = 0
    /\ lockFile = NoToken
    /\ pc = [i \in Inst |-> "start"]
    /\ acquired = [i \in Inst |-> FALSE]
    /\ lockErr = [i \in Inst |-> NoErr]
    /\ via = [i \in Inst |-> "none"]
    /\ deleted = [i \in Inst |-> NoToken]
    /\ obs = [i \in Inst |-> NoObs]
    /\ files = [i \in Inst |-> <<>>]
    /\ listed = [i \in Inst |-> FALSE]
    /\ claimed = [i \in Inst |-> NoPath]
    /\ attempt = [i \in Inst |-> 0]
    /\ response = [i \in Inst |-> 0]
    /\ answer = [i \in Inst |-> NoAnswer]
    /\ pings = [i \in Inst |-> 0]
    /\ lastPing = [i \in Inst |-> NoPing]
    /\ dest = [i \in Inst |-> NoPath]
    /\ results = [i \in Inst |-> NoResults]
    /\ sent = [i \in Inst |-> 0]
    /\ arrivals = 0

\* No uploader process has started and the folders are empty.
NoRun ==
    /\ NoProcess
    /\ inbox = EmptyDir
    /\ processed = EmptyDir

\* The run of one instance to its end, whatever the end, beside another
\* instance that takes and releases the lock: the inbox is empty or holds a
\* file.
InitEnd ==
    /\ NoProcess
    /\ \E first \in OptionalEntries(<<"a", ".txt">>, 1) : inbox = first
    /\ processed = EmptyDir
    /\ xfer = NoTransfer
    /\ batch = NoBatch

NextEnd ==
    \/ RunStep("p1")
    \/ WriteReportFails("p1")
    \/ AcquireRead("p2")
    \/ AcquireWrite("p2")
    \/ RunBody("p2")
    \/ ReleaseRead("p2")
    \/ ReleaseUnlink("p2")
    \/ Kill("p2")
    \/ Tick

\* The release runs as an exit handler of the interpreter, sequential code
\* without a wait: a process that has reached its exit and is not killed
\* takes the steps of its release.
SpecEnd ==
    /\ InitEnd
    /\ [][NextEnd]_vars
    /\ \A i \in Runners : WF_vars(ReleaseRead(i) \/ ReleaseUnlink(i))

\* The transfer function of either program is called on a file of any of
\* the sizes.
InitTransfer ==
    /\ NoRun
    /\ batch = NoBatch
    /\ \E program \in Programs, file_size \in FileSizes :
         xfer = [program |-> program, file_size |-> file_size,
                 at |-> IF program = "MMSUploader" THEN "session" ELSE "attempt",
                 tries |-> IF program = "MMSUploader" THEN 0 ELSE 1,
                 chunk |-> 0, requests |-> <<>>, sleeps |-> <<>>]

NextTransfer ==
    \/ StartUploadSession
    \/ UploadFileContent
    \/ UploadFileChunk
    \/ UploadSingleFileTurn

SpecTransfer == InitTransfer /\ [][NextTransfer]_vars

\* ------------------------------------------------------------------------
\* The loop of upload_batch over the listed files, file by file
\*
\* MMSUploader.upload_batch (batch-uploader.py, lines 499-562) and
\* MDASUploader.upload_batch (v1.4.0, lines 689-744) after the listing, with
\* the handling of one file as one step.  batch.i is the index of the next
\* file, from 0; batch.log are the transfers begun, the status polls and the
\* sleeps, in their order.
\* ------------------------------------------------------------------------
\* The configured batch size (--batch-size).
BatchSizes == {1, 2}

Event(ev, file, status) == [ev |-> ev, file |-> file, status |-> status]

\* What get_status (lines 287-334) can return, as line 521 reads it: None
\* after an HTTP error, a timeout or a connection error, a body with isBusy
\* true, or a body that reports not busy.
StatusResults == {"none", "busy", "ready"}

\* upload_batch of MMSUploader, the head of a turn of its loop over the
\* batches (lines 507-517): the loop ends after the last file, and every
\* batch but the first waits for the remote.
BatchTop ==
    /\ batch.program = "MMSUploader"
    /\ batch.at = "batch"
    /\ batch' = [batch EXCEPT !.at = IF batch.i >= batch.total THEN "report"
                                     ELSE IF batch.i > 0 THEN "status"
                                     ELSE "file",
                              !.waits = 0]
    /\ UNCHANGED <<pc, lockVars, dirVars, runVars, wakeVars, xfer>>

\* Mutant of GetStatus: a status call that returned nothing ends the wait.
GetStatus_NoneProceeds ==
    /\ batch.program = "MMSUploader"
    /\ batch.at = "status"
    /\ \E status \in StatusResults :
         batch' = [batch EXCEPT
                      !.log = IF status # "busy" \/ batch.waits < MaxWaits
                              THEN Append(@, Event("status", batch.i, status))
                              ELSE @,
                      !.at = IF status # "busy" THEN "file" ELSE "sleep"]
    /\ UNCHANGED <<pc, lockVars, dirVars, runVars, wakeVars, xfer>>

\* upload_batch of MMSUploader, one poll of its wait for the remote (lines
\* 519-523): the wait is left when get_status returned a body that does not
\* report busy; there is no limit to the polls.  The log takes the first
\* MaxWaits polls of a wait that were not ready, and the ready one.
GetStatus ==
    /\ batch.program = "MMSUploader"
    /\ batch.at = "status"
    /\ \E status \in StatusResults :
         batch' = [batch EXCEPT
                      !.log = IF status = "ready" \/ batch.waits < MaxWaits
                              THEN Append(@, Event("status", batch.i, status))
                              ELSE @,
                      !.at = IF status = "ready" THEN "file" ELSE "sleep"]
    /\ UNCHANGED <<pc, lockVars, dirVars, runVars, wakeVars, xfer>>

\* upload_batch of MMSUploader, the sleep of the polling interval after a
\* poll that was not ready (lines 524-525), and back to the poll.
PollingSleep ==
    /\ batch.program = "MMSUploader"
    /\ batch.at = "sleep"
    /\ batch' = [batch EXCEPT
                    !.log = IF batch.waits < MaxWaits
                            THEN Append(@, Event("sleep", batch.i, ""))
                            ELSE @,
                    !.waits = IF @ < MaxWaits THEN @ + 1 ELSE @,
                    !.at = "status"]
    /\ UNCHANGED <<pc, lockVars, dirVars, runVars, wakeVars, xfer>>

\* upload_batch of MMSUploader, one file of the batch (lines 528-539).
UploadBatchFile ==
    /\ batch.program = "MMSUploader"
    /\ batch.at = "file"
    /\ \E success \in BOOLEAN :
         batch' = [batch EXCEPT
                      !.log = Append(@, Event("transfer", batch.i, "")),
                      !.successful = IF success THEN @ + 1 ELSE @,
                      !.failed = IF success THEN @ ELSE @ + 1,
                      !.i = @ + 1,
                      !.at = IF (batch.i + 1) % batch.batch_size = 0
                                   \/ batch.i + 1 >= batch.total
                             THEN "batch" ELSE @]
    /\ UNCHANGED <<pc, lockVars, dirVars, runVars, wakeVars, xfer>>

\* upload_batch of MDASUploader, one turn of its loop over the files (lines
\* 699-723): the claim, the transfer, and the move or the unclaim; the batch
\* size and the polling interval are not read.
PerFileTurn ==
    /\ batch.program = "MDASUploader"
    /\ batch.at = "file"
    /\ \E outcome \in {"success", "failed", "skipped"} :
         batch' = [batch EXCEPT
                      !.log = IF outcome = "skipped" THEN @
                              ELSE Append(@, Event("transfer", batch.i, "")),
                      !.successful = IF outcome = "success" THEN @ + 1 ELSE @,
                      !.failed = IF outcome = "failed" THEN @ + 1 ELSE @,
                      !.i = @ + 1,
                      !.at = IF batch.i + 1 >= batch.total THEN "report" ELSE @]
    /\ UNCHANGED <<pc, lockVars, dirVars, runVars, wakeVars, xfer>>

\* upload_batch of either program, the summary and the report (lines
\* 541-562 of batch-uploader.py, 725-744 of v1.4.0).
SaveReport ==
    /\ batch.at = "report"
    /\ batch' = [batch EXCEPT !.at = "done"]
    /\ UNCHANGED <<pc, lockVars, dirVars, runVars, wakeVars, xfer>>

\* upload_batch of either program has listed its files, at least one, and
\* enters its loop.
InitBatch ==
    /\ NoRun
    /\ xfer = NoTransfer
    /\ \E program \in Programs, batch_size \in BatchSizes, total \in 1..MaxFiles :
         batch = [program |-> program, batch_size |-> batch_size, total |-> total,
                  i |-> 0, at |-> IF program = "MMSUploader" THEN "batch" ELSE "file",
                  waits |-> 0, successful |-> 0, failed |-> 0, log |-> <<>>]

NextBatch ==
    \/ BatchTop
    \/ GetStatus
    \/ PollingSleep
    \/ UploadBatchFile
    \/ PerFileTurn
    \/ SaveReport

SpecBatch == InitBatch /\ [][NextBatch]_vars

\* upload_batch runs in one thread and none of its steps waits for another
\* process: as long as it has a step to take, it takes one.
SpecBatchLive == SpecBatch /\ WF_vars(NextBatch)

\* ------------------------------------------------------------------------
\* Properties of the instance lock
\* ------------------------------------------------------------------------
\* An instance holds the lock, in its own view, from the return of a
\* successful acquire until its release or its end.
Holding(i) == acquired[i] /\ ProcAlive(i)

\* The age test of the staleness threshold, in minutes.
OlderThanThreshold(tok) ==
    (now - tok.timestamp) * TickMinutes > LOCK_STALE_MINUTES

\* An instance takes a step of its own that is not its death.
Moves(i, from) == pc[i] = from /\ pc'[i] \notin {from, "killed"}

\* C1: mutual exclusion of the instance lock.  Of two instances that hold
\* the lock at the same time one passed acquire by overriding a stale token,
\* and an acquire that failed names the pid (and, for another host, the host)
\* of an instance that passed acquire's checks; on the caller's own host that
\* owner was alive.
C1_MutualExclusion ==
    /\ \A i, j \in Inst :
          (i # j /\ Holding(i) /\ Holding(j)) => (via[i] = "stale" \/ via[j] = "stale")
    /\ \A i \in Inst :
          lockErr[i] # NoErr =>
             \E j \in Inst \ {i} :
                /\ via[j] # "none"
                /\ proc[j].pid = lockErr[i].pid
                /\ lockErr[i].kind = "running_on" => proc[j].host = lockErr[i].host
                /\ lockErr[i].kind = "running" =>
                      (proc[j].host = proc[i].host /\ obs[i].ownerAlive)

\* C6: release removes only the caller's own token.  The token an
\* instance's release unlinked was written by that instance.
C6_ReleaseOwnTokenOnly ==
    \A i \in Inst : deleted[i] # NoToken => deleted[i].writer = i

C9_OtherHostFresh ==
    [][\A i \in Inst :
        (/\ Moves(i, "start") /\ lockFile # NoToken
         /\ ~OlderThanThreshold(lockFile)
         /\ lockFile.hostname # proc[i].host)
           => /\ pc'[i] = "done" /\ ~acquired'[i]
              /\ lockErr'[i] = [kind |-> "running_on", pid |-> lockFile.pid,
                                host |-> lockFile.hostname,
                                started |-> lockFile.started_at]
              /\ lockFile' = lockFile
              /\ ~obs'[i].probed]_vars

\* C9, witness: an acquire was refused by a fresh token of another host
\* whose owner was dead by then.
C9_Witness ==
    \E i \in Inst :
        /\ lockErr[i].kind = "running_on" /\ lockErr[i].host # proc[i].host
        /\ ~obs[i].ownerAlive /\ ~obs[i].probed


\* ------------------------------------------------------------------------
\* Properties of the runs
\* ------------------------------------------------------------------------
\* An instance is transferring the file at its claimed path: from its claim
\* to the end of its transfer attempts.
Transferring(i) ==
    pc[i] \in {"stat", "upload"} /\ Exists(inbox, claimed[i])

SuccessOf(i) ==
    {results[i].files[k].content : k \in {x \in DOMAIN results[i].files :
                                            results[i].files[x].status = "success"}}

\* C3: no double upload in the overlap window.  No two instances are
\* transferring the same inbox file at the same time, and no file is recorded
\* as successful by two runs.
C3_NoDoubleUpload ==
    /\ \A i, j \in Inst :
          (i # j /\ Transferring(i) /\ Transferring(j)) => claimed[i] # claimed[j]
    /\ \A i, j \in Inst : i # j => SuccessOf(i) \cap SuccessOf(j) = {}

\* upload_batch has the answer of _claim_file for its listed file: a path
\* (it goes on to the transfer) or None (the file is recorded as skipped).
GotPath(i) == pc[i] = "stat" /\ claimed[i] # NoPath

GotNone(i) ==
    /\ pc[i] = "loop" /\ files[i] = <<>> /\ claimed[i] = NoPath
    /\ Len(results[i].files) = 1 /\ results[i].files[1].status = "skipped"

C5_NoOverwrite ==
    [][/\ \A n \in DOMAIN processed :
             n \in DOMAIN processed' /\ processed'[n] = processed[n]
       /\ processed' # processed =>
             Cardinality(DOMAIN processed') = Cardinality(DOMAIN processed) + 1]_vars

\* C4: a file is never left invisible to future runs.  While no instance
\* has been hard-killed, every inbox entry that bears the claim suffix is the
\* claimed path of a live instance that is still handling it.
C4_NeverInvisible ==
    (\A i \in Inst : pc[i] # "killed") =>
       \A n \in DOMAIN inbox :
          EndsWithUploading(n) =>
             \E i \in Inst : ProcAlive(i) /\ claimed[i] = n

\* C10: a lock conflict is fatal with zero files touched.  An instance whose
\* acquire failed has ended with the lock-conflict result, has not listed the
\* inbox, and has claimed, transferred and moved nothing.
C10_LockConflictTouchesNothing ==
    \A i \in Inst :
       lockErr[i] # NoErr =>
          /\ pc[i] = "done" /\ ~acquired[i]
          /\ ~listed[i] /\ files[i] = <<>>
          /\ claimed[i] = NoPath /\ attempt[i] = 0 /\ dest[i] = NoPath /\ sent[i] = 0
          /\ results[i] = [NoResults EXCEPT !.error = "Lock conflict"]

\* C10, witness: an instance ended on a lock conflict while the inbox held a
\* file, which the holder of the lock then claimed.
C10_Witness ==
    \E i, j \in Inst :
       /\ lockErr[i].kind = "running" /\ pc[i] = "done"
       /\ results[i].error = "Lock conflict"
       /\ Holding(j) /\ claimed[j] # NoPath /\ Exists(inbox, claimed[j])

\* ------------------------------------------------------------------------
\* Properties of the transfer
\* ------------------------------------------------------------------------
\* The contents a folder holds.
Contents(dir) == {dir[n] : n \in DOMAIN dir}

\* The last record of a run result.
LastRecord(res) == res.files[Len(res.files)]

\* C11: retry bound.  A claimed file is given at most MAX_RETRIES transfer
\* attempts; the run gives it up exactly at a failure of attempt number
\* MAX_RETRIES; and the step that ends the unclaim records the file as
\* failed, makes no further attempt, and leaves the file in the inbox under
\* its listed name with its content, no longer under its claimed name.
C11_RetryBound ==
    [][\A i \in Inst :
        /\ attempt'[i] <= MAX_RETRIES
        /\ (Moves(i, "upload") /\ response'[i] \notin {200, 409})
              => (attempt[i] = MAX_RETRIES /\ pc'[i] = "unclaim")
        /\ attempt'[i] # attempt[i]
              => \/ pc[i] = "stat" /\ attempt'[i] = 1
                 \/ /\ pc[i] = "upload" /\ pc'[i] = "upload"
                    /\ response'[i] \notin {200, 409}
                    /\ attempt[i] < MAX_RETRIES /\ attempt'[i] = attempt[i] + 1
        /\ Moves(i, "unclaim")
              => /\ pc'[i] = "loop" /\ attempt'[i] = attempt[i]
                 /\ results'[i].failed = results[i].failed + 1
                 /\ LastRecord(results'[i]).name = Head(files[i])
                 /\ LastRecord(results'[i]).status = "failed"
                 /\ Exists(inbox', Head(files[i]))
                 /\ sent[i] = 0
                 /\ ~Exists(inbox', claimed[i])]_vars

\* C12: duplicate handling.  A transfer attempt answered with 409 ends the
\* retry loop at once, and the finalize that follows records the file as
\* successful and leaves the content that was sent in the processed folder,
\* no longer in the inbox under its claimed name.
C12_DuplicateIsSuccess ==
    [][\A i \in Inst :
        /\ (pc[i] = "upload" /\ pc'[i] # "killed" /\ response'[i] = 409 /\ attempt' = attempt
            /\ response'[i] # response[i])
              => pc'[i] = "finalize"
        /\ (response[i] = 409 /\ pc'[i] # "killed")
              => (pc[i] \in {"finalize", "move"} /\ attempt'[i] = attempt[i])
        /\ (Moves(i, "move") /\ response[i] = 409)
              => /\ LastRecord(results'[i]).name = Head(files[i])
                 /\ LastRecord(results'[i]).status = "success"
                 /\ results'[i].successful = results[i].successful + 1
                 /\ sent[i] \in Contents(processed')
                 /\ ~Exists(inbox', claimed[i])]_vars

\* C13: at-least-once delivery, safety half.  Every content of the
\* processed folder that was not there from the start was sent in a transfer
\* attempt the remote acknowledged, and every file recorded as successful
\* was sent in such an attempt.
C13_ProcessedWasAcknowledged ==
    /\ \A n \in DOMAIN processed :
          processed[n] \in UNION {Contents(d.processed) : d \in StartDirs}
          \/ \E i \in Inst : \E k \in DOMAIN results[i].files :
                /\ results[i].files[k].status = "success"
                /\ results[i].files[k].content = processed[n]
    /\ \A i \in Inst : \A k \in DOMAIN results[i].files :
          results[i].files[k].status = "success" => results[i].files[k].content # 0

\* C14: round-trip recovery.  When _unclaim_file has returned for a file
\* that _claim_file claimed, the inbox holds the file under the name it was
\* listed with and with its content, and no entry of the inbox bears the
\* claim suffix.
C14_RoundTrip ==
    (/\ pc["p1"] = "loop" /\ files["p1"] = <<>>
     /\ results["p1"].failed = 1)
       => /\ Exists(inbox, LastRecord(results["p1"]).name)
          /\ inbox[LastRecord(results["p1"]).name] = 1
          /\ \A n \in DOMAIN inbox : ~EndsWithUploading(n)

\* 'name (k).ext' for a name 'name.ext'.
WithNumber(name, k) ==
    SubSeq(name, 1, Len(name) - 1) \o <<" (" \o ToString(k) \o ")", name[Len(name)]>>

\* C15: collision-safe destination name.  The destination finalize chooses
\* for a claimed file with logical name 'name.ext' is 'name.ext' when that
\* is free in the processed folder, and otherwise 'name (k).ext' for the
\* smallest k >= 1 for which that name is free; a move that is carried out
\* lands the file under the chosen name.
C15_SmallestFreeName ==
    [][\A i \in Inst :
        /\ Moves(i, "finalize") =>
             LET name == SubSeq(claimed[i], 1, Len(claimed[i]) - 1) IN
               IF name \notin DOMAIN processed
               THEN dest'[i] = name
               ELSE \E k \in 1..(Cardinality(DOMAIN processed) + 1) :
                      /\ dest'[i] = WithNumber(name, k)
                      /\ WithNumber(name, k) \notin DOMAIN processed
                      /\ \A j \in 1..(k - 1) : WithNumber(name, j) \in DOMAIN processed
        /\ (Moves(i, "move") /\ inbox' # inbox) =>
             /\ dest[i] \in DOMAIN processed'
             /\ processed'[dest[i]] = inbox[claimed[i]]]_vars

\* C15, witness: with 'dup.txt' and 'dup (1).txt' in the processed folder
\* from the start, the claimed 'dup.txt' has landed as 'dup (2).txt'.
C15_Witness ==
    /\ {<<"dup", ".txt">>, <<"dup", " (1)", ".txt">>, <<"dup", " (2)", ".txt">>}
          \subseteq DOMAIN processed
    /\ processed[<<"dup", ".txt">>] = 3
    /\ processed[<<"dup", " (1)", ".txt">>] = 4
    /\ processed[<<"dup", " (2)", ".txt">>] = 1

\* ------------------------------------------------------------------------
\* Properties of the wake-up and of the end of the run
\* ------------------------------------------------------------------------
\* C16: wake-up success condition.  A wake-up ping ends the wake-up with
\* success exactly when its answer is a 200 that reports the service as
\* running and, an API key being configured, the key as valid; every other
\* answer leaves the instance waking.
C16_WakeupSuccessCondition ==
    [][\A i \in Inst :
        pings'[i] # pings[i] =>
          /\ pc'[i] = "loop" <=>
                /\ answer'[i].code = 200
                /\ answer'[i].data.serviceStatus = "running"
                /\ ApiKeyConfigured => answer'[i].data.keyStatus = "valid"
          /\ pc'[i] # "loop" => pc'[i] = "wake"]_vars

\* C16, witness: a ping was answered "running" with a key that is not valid,
\* and the instance is still waking.
C16_Witness ==
    /\ pc["p1"] = "wake" /\ pings["p1"] >= 1
    /\ answer["p1"].code = 200
    /\ answer["p1"].data.serviceStatus = "running"
    /\ answer["p1"].data.keyStatus = "invalid"

\* C17: the wake-up is a bounded loop.  At most MAX_WAKEUP_ATTEMPTS pings
\* are sent, one at a time and only while waking; a ping that succeeds ends
\* the loop at once; the loop ends in failure only after MAX_WAKEUP_ATTEMPTS
\* pings of which the last was not ready; and the loop always ends.
C17_WakeupBounded ==
    /\ [][\A i \in Inst :
           /\ pings'[i] <= MAX_WAKEUP_ATTEMPTS
           /\ pings'[i] # pings[i]
                 => /\ pc[i] = "wake" /\ pings'[i] = pings[i] + 1
                    /\ WakeupPingOk(answer'[i]) <=> pc'[i] = "loop"
           /\ (pc[i] = "wake" /\ pc'[i] # "wake")
                 => \/ pc'[i] = "loop" /\ pings'[i] = pings[i] + 1
                    \/ /\ pc'[i] = "release" /\ pings[i] = MAX_WAKEUP_ATTEMPTS
                       /\ ~WakeupPingOk(answer[i])
                       /\ results'[i].error = "Server unavailable"]_vars
    /\ <>(pc["p1"] # "wake")

\* C17, witness: the wake-up ended in failure after MAX_WAKEUP_ATTEMPTS pings.
C17_Witness ==
    /\ pc["p1"] = "release" /\ pings["p1"] = MAX_WAKEUP_ATTEMPTS
    /\ results["p1"].error = "Server unavailable"

\* C18: server unresponsive aborts before any file is touched.  A run that
\* ended as "Server unavailable" counts every listed file as failed and none
\* as successful or skipped, has claimed, transferred and moved nothing, and,
\* no other run being under way, left every listed file in the inbox.
C18_UnresponsiveTouchesNothing ==
    \A i \in Inst :
       results[i].error = "Server unavailable" =>
          /\ pc[i] \in {"release", "rel_unlink", "done", "killed"}
          /\ Len(files[i]) >= 1
          /\ results[i] = [NoResults EXCEPT !.failed = Len(files[i]),
                                            !.error = "Server unavailable"]
          /\ claimed[i] = NoPath /\ attempt[i] = 0 /\ response[i] = 0
          /\ dest[i] = NoPath /\ sent[i] = 0
          /\ (\A j \in Inst \ {i} : ~listed[j])
                => /\ \A k \in DOMAIN files[i] : Exists(inbox, files[i][k])
                   /\ \A n \in DOMAIN inbox : ~EndsWithUploading(n)
                   /\ processed = EmptyDir

\* C18, witness: the attempts ran out with two files listed.
C18_Witness ==
    /\ results["p1"].error = "Server unavailable"
    /\ results["p1"].failed = 2
    /\ pings["p1"] = MAX_WAKEUP_ATTEMPTS
    /\ Cardinality(DOMAIN inbox) = 2

\* C19: host-approval gating is fail-closed.  An instance whose last ping
\* data carry the host approval "pending" or "denied" has claimed no file,
\* and no file of the inbox bears the claim suffix.
C19_HostApprovalGate ==
    \A i \in Inst :
       lastPing[i].hostApproval \in {"pending", "denied"}
          => /\ claimed[i] = NoPath
             /\ \A n \in DOMAIN inbox : ~EndsWithUploading(n)

\* C20: exit code of the upload action.  The process of a run that has
\* ended exits with 0 exactly when the run passed the lock and the wake-up,
\* met no exception, and recorded no failed file.
C20_ExitCode ==
    \A i \in Inst :
       pc[i] = "done" =>
          (ExitCode(results[i]) = 0 <=>
              /\ lockErr[i] = NoErr
              /\ results[i].error = "none"
              /\ results[i].failed = 0)

\* ------------------------------------------------------------------------
\* File selection, outcomes per file, transfer and pacing
\* ------------------------------------------------------------------------

\* Instance j takes no part in the step.
Stands(j) ==
    pc'[j] = pc[j] /\ files'[j] = files[j] /\ attempt'[j] = attempt[j]

\* C21: a run lists only inbox entries that are not hidden and do not bear
\* the claim suffix, and an inbox entry that bears the suffix and is the
\* claim of an instance is left as it is by every step of the others.
C21_SelectionLeavesClaimsAlone ==
    [][/\ \A i \in Inst :
            (pc[i] = "scan" /\ pc'[i] = "wake") =>
               \A k \in 1..Len(files'[i]) :
                  /\ Exists(inbox, files'[i][k])
                  /\ ~IsHidden(files'[i][k])
                  /\ ~EndsWithUploading(files'[i][k])
       /\ \A j \in Inst :
            (claimed[j] # NoPath /\ Exists(inbox, claimed[j]) /\ Stands(j)) =>
               /\ Exists(inbox', claimed[j])
               /\ inbox'[claimed[j]] = inbox[claimed[j]]]_vars

\* The positions of the per-file loop of upload_batch.
PerFile == {"loop", "claim_rename", "stat", "upload", "finalize", "move", "unclaim"}

\* C22: in a run that passed the lock and the wake-up every listed file is
\* taken in turn and gets exactly one recorded outcome, whatever happened to
\* the files before it: a file leaves the list only together with its
\* record, no record is written otherwise, and the run leaves the loop only
\* when the list is empty.
C22_EveryFileGetsOneOutcome ==
    [][\A i \in Inst :
         /\ (pc[i] \in PerFile /\ files'[i] # files[i]) =>
               /\ files'[i] = Tail(files[i])
               /\ Len(results'[i].files) = Len(results[i].files) + 1
               /\ LastRecord(results'[i]).name = Head(files[i])
               /\ LastRecord(results'[i]).status \in {"success", "failed", "skipped"}
         /\ (pc[i] \in PerFile /\ results'[i].files # results[i].files) =>
               files'[i] # files[i]
         /\ (pc[i] \in PerFile /\ pc'[i] \notin PerFile \cup {"killed"}) =>
               files[i] = <<>>]_vars

\* C23: when the next listed file is gone from the inbox under its listed
\* name by the time of the claim (at the existence test or at the rename),
\* the claim changes no folder, the file is recorded as skipped and not as
\* failed, no transfer attempt is made for it and the run goes on with the
\* next file.
C23_LostRaceIsSkip ==
    [][\A i \in Inst :
         (/\ pc[i] \in {"loop", "claim_rename"}
          /\ files[i] # <<>>
          /\ ~Exists(inbox, Head(files[i]))
          /\ ~Stands(i)
          /\ pc'[i] # "killed") =>
             /\ inbox' = inbox /\ processed' = processed
             /\ claimed'[i] = NoPath
             /\ results'[i] = Recorded(results[i], Head(files[i]), "skipped", 0)
             /\ results'[i].failed = results[i].failed
             /\ attempt'[i] = attempt[i] /\ sent'[i] = sent[i]
             /\ files'[i] = Tail(files[i])
             /\ pc'[i] = "loop"]_vars

\* An instance recorded a skip for the file the other one holds.
C23_Witness ==
    \E i, j \in Inst :
       /\ i # j
       /\ claimed[j] # NoPath /\ Exists(inbox, claimed[j])
       /\ results[i].skipped = 1 /\ results[i].failed = 0
       /\ pc[i] = "loop" /\ files[i] = <<>>

\* The requests of the current attempt that carry file data.
DataRequests == SelectSeq(xfer.requests, LAMBDA r : r.kind # "start")

\* The least n with n * b >= a.
CeilDiv(a, b) == CHOOSE n \in 0..(a \div b) + 1 : n * b >= a /\ (n - 1) * b < a

\* C24: a file larger than the chunk threshold is sent as
\* n = ceil(size / threshold) chunks with the indices 0..n-1 in this order,
\* each with the total n; a file of at most the threshold is sent as one
\* whole-file upload.
C24_TransferDecision ==
    xfer.at # "none" =>
       LET n == CeilDiv(xfer.file_size, CHUNK_SIZE) IN
         IF xfer.file_size > CHUNK_SIZE
         THEN /\ Len(DataRequests) <= n
              /\ \A k \in 1..Len(DataRequests) :
                    /\ DataRequests[k].kind = "chunk"
                    /\ DataRequests[k].chunkIndex = k - 1
                    /\ DataRequests[k].totalChunks = n
              /\ xfer.at = "true" => Len(DataRequests) = n
         ELSE /\ Len(DataRequests) <= 1
              /\ \A k \in 1..Len(DataRequests) :
                    DataRequests[k].kind \in {"content", "upload"}
              /\ xfer.at = "true" => Len(DataRequests) = 1

\* C25: when a run with no concurrent instance has written its report and
\* no transfer was left unaccepted (no file failed), every listed file is in
\* the processed folder and none is left in the inbox, and the report shows
\* every listed file as successful and none as skipped.
C25_SuccessfulRunOutcome ==
    LET res == results["p1"] IN
      (/\ pc["p1"] = "release" /\ files["p1"] = <<>>
       /\ \A j \in Inst \ {"p1"} : pc[j] = "start"
       /\ res.error = "none" /\ res.failed = 0) =>
          /\ res.successful = Len(res.files)
          /\ res.skipped = 0
          /\ \A k \in 1..Len(res.files) :
                /\ res.files[k].content \in Contents(processed)
                /\ res.files[k].content \notin Contents(inbox)

\* The transfer of file k has begun by position p of the log.
Begun(k, p) == \E r \in 1..p : batch.log[r].ev = "transfer" /\ batch.log[r].file = k

\* C26: files are handled in batches of the configured size; the transfer
\* of a file of a batch other than the first begins only after a status
\* poll that reported the remote as not busy and that came after the last
\* file of the batch before; a poll that did not report so is followed by a
\* sleep of the polling interval and another poll.
C26_BatchPacing ==
    batch.at # "none" =>
       \A p \in 1..Len(batch.log) :
          LET e == batch.log[p] IN
            /\ (e.ev = "transfer" /\ e.file >= batch.batch_size) =>
                  \E q \in 1..(p - 1) :
                     /\ batch.log[q].ev = "status"
                     /\ batch.log[q].status = "ready"
                     /\ batch.log[q].file = (e.file \div batch.batch_size) * batch.batch_size
                     /\ Begun(batch.log[q].file - 1, q - 1)
            /\ (e.ev = "status" /\ e.status # "ready" /\ p < Len(batch.log)) =>
                  batch.log[p + 1].ev = "sleep"
            /\ (e.ev = "sleep" /\ p < Len(batch.log)) =>
                  batch.log[p + 1].ev = "status"

\* C30: a run that reached its report returns its counts and its process
\* exits with the code that follows from them (0 when no file failed),
\* whether the report could be written or not.
C30_ReportFailureKeepsOutcome ==
    LET res == results["p1"] IN
      (pc["p1"] = "release" /\ files["p1"] = <<>>) =>
         /\ res.error = "none"
         /\ ExitCode(res) = IF res.failed = 0 THEN 0 ELSE 1

\* No token of instance i is on disk.
Gone(i) == lockFile = NoToken \/ lockFile.writer # i

\* The positions of a run between its acquire and its end.
Running == {"scan", "wake"} \cup PerFile

Woken(i) ==
    /\ pc[i] \in PerFile \cup {"release", "rel_unlink", "done"}
    /\ results[i].error \notin {"Lock conflict", "Server unavailable"}

\* Instance i lists the inbox in this step.
Lists(i) == listed'[i] /\ ~listed[i]

\* Instance i starts to wake the server in this step.
StartsWakeup(i) == pc'[i] = "wake" /\ pc[i] # "wake"

\* Instance i claims a file in this step.
Claims(i) == claimed'[i] # NoPath /\ claimed[i] = NoPath

AttemptsBegun == IF xfer.program = "MMSUploader" THEN xfer.tries + 1 ELSE xfer.tries

\* C29: the delay before the k-th retry of a file is 2^(k-1) seconds (1 s,
\* 2 s, 4 s); a delay precedes each retry, and none follows the final
\* failed attempt.
C29_BackoffSchedule ==
    xfer.at # "none" =>
       /\ Len(xfer.sleeps) = AttemptsBegun - 1
       /\ \A k \in 1..Len(xfer.sleeps) : xfer.sleeps[k] = 2 ^ (k - 1)

\* ------------------------------------------------------------------------
\* Retry path, report, counting, loss of files
\* ------------------------------------------------------------------------

\* C31: a failure of any step of a transfer attempt (the start of the
\* upload session, a chunk, the whole file) is retried under the same
\* ceiling and backoff: the call gives up only when the retries are used
\* up, and a retry follows one more sleep and starts the file again, its
\* first chunk included (MMSUploader._upload_file).
C31_OneRetryPath ==
    [][xfer.program = "MMSUploader" =>
       /\ (xfer'.at = "false" /\ xfer.at # "false") =>
             xfer.tries = MAX_RETRIES
       /\ xfer'.tries # xfer.tries =>
             /\ xfer'.tries = xfer.tries + 1
             /\ xfer.tries < MAX_RETRIES
             /\ Len(xfer'.sleeps) = Len(xfer.sleeps) + 1
             /\ xfer'.chunk = 0 /\ xfer'.requests = <<>>
             /\ xfer'.at \in {"session", "attempt"}
       /\ \A k \in 1..Len(DataRequests) :
             DataRequests[k].chunkIndex = IF DataRequests[k].kind = "chunk" THEN k - 1 ELSE 0]_vars

\* C32: at the end of a run every file recorded as success is in the
\* processed folder and not in the inbox, and every file recorded as failed
\* is in the inbox under its listed name, without the claim suffix.
C32_ReportAgreesWithFolders ==
    LET res == results["p1"] IN
      (pc["p1"] = "release" /\ files["p1"] = <<>> /\ res.error = "none") =>
         \A k \in 1..Len(res.files) :
            LET r == res.files[k] IN
              /\ r.status = "success" =>
                    /\ r.content \in Contents(processed)
                    /\ r.content \notin Contents(inbox)
              /\ r.status = "failed" =>
                    /\ Exists(inbox, r.name)
                    /\ ~EndsWithUploading(r.name)
                    /\ ~Exists(inbox, ClaimedPath(r.name))

\* The files instance i has handled so far.
Handled(i) == Len(results[i].files)

\* C33: at every point of the per-file loop successful + failed + skipped
\* equals the number of records and the number of listed files handled so
\* far, every handled file has one record, and when the run leaves the loop
\* the sum equals the number of files listed at its start.
C33_CountingInvariant ==
    [][\A i \in Inst :
         /\ pc[i] \in PerFile =>
               results[i].successful + results[i].failed + results[i].skipped = Handled(i)
         /\ (pc[i] \in PerFile /\ pc'[i] # "killed") =>
               /\ Handled(i)' + Len(files'[i]) = Handled(i) + Len(files[i])
               /\ Handled(i)' \in {Handled(i), Handled(i) + 1}
               /\ Handled(i)' = Handled(i) + 1 =>
                     LastRecord(results'[i]).name = Head(files[i])
         /\ (pc[i] \in PerFile /\ pc'[i] \notin PerFile \cup {"killed"}) =>
               /\ files[i] = <<>>
               /\ results[i].successful + results[i].failed + results[i].skipped
                     = Handled(i) + Len(files[i])]_vars

\* The contents that have entered the inbox: that of the start and those
\* of the arrivals.
Entered == {1} \cup {10 + k : k \in 0..(arrivals - 1)}

\* The places a content is at.
PlacesOf(c) ==
    {<<"inbox", n>> : n \in {m \in DOMAIN inbox : inbox[m] = c}}
       \cup {<<"processed", n>> : n \in {m \in DOMAIN processed : processed[m] = c}}

\* C34: whatever claims, unclaims and moves the instances make and whatever
\* arrives meanwhile, every file that entered the inbox is with its content
\* in exactly one place, the inbox (under its name or its claimed name) or
\* the processed folder.
C34_NoFileLost ==
    \A c \in Entered : Cardinality(PlacesOf(c)) = 1


\* ------------------------------------------------------------------------
\* The lock: exclusion, failed acquires, unreadable tokens
\* ------------------------------------------------------------------------
\* The live instances of a host that have acquired the lock and not yet
\* released it.
Holders(h) == {i \in Inst : HostOf(i) = h /\ ProcAlive(i) /\ acquired[i]}

Lost(i) == lockErr[i] # NoErr

Unreadable == lockFile \in {BadToken(k) : k \in Unparsable}

\* C37: an acquire that reads a lock file whose content cannot be parsed
\* goes on to its write as on a missing file, with no staleness test and no
\* probe of a process, and its write, once done, leaves the caller's token
\* on disk and the caller with the lock.
C37_UnreadableTokenIsNoToken ==
    [][\A i \in Inst :
         /\ (Unreadable /\ pc[i] = "start" /\ pc'[i] \notin {"start", "killed"}) =>
               /\ pc'[i] = "acq_write"
               /\ via'[i] = "free"
               /\ ~obs'[i].probed
               /\ lockErr'[i] = NoErr
         /\ (pc[i] = "acq_dump" /\ pc'[i] \notin {"acq_dump", "killed"}) =>
               /\ pc'[i] = "scan"
               /\ acquired'[i]
               /\ lockFile' = LockInfo(i)]_vars


\* ------------------------------------------------------------------------
\* Pacing and termination
\* ------------------------------------------------------------------------
\* A poll of the wait for the remote that reports not busy.
ReadyPoll == GetStatus /\ batch'.at = "file"

\* C38: in the wait between batches a poll ends the wait exactly when it
\* reports the remote as not busy; any other poll, one without a decoded
\* response included, is followed by the sleep of the polling interval and
\* another poll, and no file is transferred meanwhile; and if the remote
\* reports not busy at some poll whenever it is polled again and again, the
\* wait ends and the next batch starts.
C38_FailedStatusIsBusy ==
    /\ [][(batch.program = "MMSUploader" /\ batch' # batch) =>
            /\ batch.at = "status" =>
                  /\ batch'.at \in {"file", "sleep"}
                  /\ batch'.i = batch.i
                  /\ batch'.at = "file" <=>
                        batch'.log = Append(batch.log, Event("status", batch.i, "ready"))
                  /\ (batch'.at = "sleep" /\ batch.waits < MaxWaits) =>
                        /\ Len(batch'.log) = Len(batch.log) + 1
                        /\ batch'.log[Len(batch'.log)].ev = "status"
                        /\ batch'.log[Len(batch'.log)].status \in {"none", "busy"}
            /\ batch.at = "sleep" =>
                  /\ batch'.at = "status"
                  /\ batch'.i = batch.i
                  /\ batch.waits < MaxWaits =>
                        batch'.log = Append(batch.log, Event("sleep", batch.i, ""))
            /\ (batch'.at = "file" /\ batch.at # "file" /\ batch.i > 0) =>
                  batch.at = "status"]_vars
    /\ SF_vars(ReadyPoll) => (batch.at = "status" ~> batch.at = "file")

\* A wait in which a status call came back without a response, was followed
\* by a sleep and another poll, and which a ready report has ended.
C38_Witness ==
    /\ batch.program = "MMSUploader"
    /\ batch.at = "file"
    /\ \E p \in 1..(Len(batch.log) - 2) :
         /\ batch.log[p] = Event("status", batch.i, "none")
         /\ batch.log[p + 1] = Event("sleep", batch.i, "")
         /\ batch.log[p + 2].ev = "status"
    /\ batch.log[Len(batch.log)] = Event("status", batch.i, "ready")


\* C39: whatever the remote answers, the loop of upload_batch over the
\* listed files comes to its end and the run to its report.
C39_EveryRunTerminates == <>(batch.at = "done")

====
